---- MODULE Spec2Model ----
(***************************************************************************)
(* HyperCat: the bounded subpath-rewriting checker                         *)
(* (hypercat/diagram/commutativity_checker.py), its dimension-indexed      *)
(* twin (hypercat/higher/finite/ncat.py) and the composition-based         *)
(* verifier (util/diagrams_checker.py), as one state machine.              *)
(*                                                                         *)
(* A behaviour is one client session on one object: a CommutativityChecker *)
(* built from a relation list, a FiniteWeakNCategory(n), or a verifier     *)
(* over a category.  Calls are sequential (the library is synchronous);    *)
(* the breadth-first loop of check / certificate is one step per dequeue.  *)
(* Further threads of the client may call into the same object while the   *)
(* session is idle; each of them has a frame of its own in threads.        *)
(***************************************************************************)
EXTENDS Integers, Sequences, FiniteSets, TLC

VARIABLES
    obj,          \* which object the session works on
    rels,         \* CommutativityChecker.rels
    n,            \* FiniteWeakNCategory.n
    generators,   \* FiniteWeakNCategory.generators : dim -> list
    relations,    \* FiniteWeakNCategory.relations  : dim -> list
    category,     \* the Category the verifier works on
    path_cache,           \* the verifier's (source, target) -> list of paths
    commutativity_cache,  \* the verifier's (path, path) -> bool
    fn,           \* the function executing, or the last one that returned
    call,         \* its arguments
    pc,           \* "idle" | "loop" (inside the while loop) | "done"
    q,            \* local deque of (path, cert)
    seen,         \* local set of paths
    steps,        \* local dequeue counter
    ret,          \* what the last call returned or raised
    threads       \* the calls other threads run on the object: thread -> frame

vars == <<obj, rels, n, generators, relations, category, path_cache, commutativity_cache,
          fn, call, pc, q, seen, steps, ret, threads>>

(***************************************************************************)
(* Bounds of the model.                                                    *)
(***************************************************************************)
MaxLen == 2        \* longest start / end path of a query
MaxBudget == 3     \* largest budget of a query
MaxRels == 2       \* longest relation list given to the constructor

Labels == {"a", "b"}

PathsUpTo(S, k) == UNION {[1..m -> S] : m \in 0..k}

Budgets == (0 - 1)..MaxBudget

(***************************************************************************)
(* Direction tags of a certificate step.                                   *)
(***************************************************************************)
Forward == "->"
Backward == "<-"

Relation(lhs, rhs, name) == [lhs |-> lhs, rhs |-> rhs, name |-> name]

(***************************************************************************)
(* The relations a session may register.  Between them they cover: the     *)
(* spec's swap, two relations sharing a name, a rule that lengthens the    *)
(* path, a rule another relation can imitate at a later offset, empty      *)
(* sides and a relation whose two sides are equal.                         *)
(***************************************************************************)
RelPool ==
    { Relation(<<"a", "b">>, <<"b", "a">>, "swap"),
      Relation(<<"a">>, <<"b">>, "r"),
      Relation(<<"a">>, <<"a", "b">>, "r"),
      Relation(<<"a", "b">>, <<"a", "a">>, "t"),
      Relation(<<>>, <<"a">>, "ins"),
      Relation(<<"b">>, <<>>, "del"),
      Relation(<<"b">>, <<"b">>, "idb") }

RelLists == UNION {[1..m -> RelPool] : m \in 0..MaxRels}

(***************************************************************************)
(* _subs: the substitutions of one pattern, by ascending offset.           *)
(***************************************************************************)
\* a variant that records the offset 1-based
PatternSubs_OneBased(path, name, direction, pat, rep) ==
    LET len == Len(path)
        L == Len(pat)
        from[i \in 0..len] ==
            IF i > len - L THEN <<>>
            ELSE (IF SubSeq(path, i + 1, i + L) = pat
                  THEN << [newp |-> SubSeq(path, 1, i) \o rep \o SubSeq(path, i + L + 1, len),
                           info |-> <<name, i + 1, direction>>] >>
                  ELSE <<>>) \o from[i + 1]
    IN  IF L = 0 \/ L > len THEN <<>> ELSE from[0]

\* a variant without the `L == 0` skip: an empty pattern occurs at every offset
PatternSubs_EmptyPatternOccurs(path, name, direction, pat, rep) ==
    LET len == Len(path)
        L == Len(pat)
        from[i \in 0..(len + 1)] ==
            IF i > len - L THEN <<>>
            ELSE (IF SubSeq(path, i + 1, i + L) = pat
                  THEN << [newp |-> SubSeq(path, 1, i) \o rep \o SubSeq(path, i + L + 1, len),
                           info |-> <<name, i, direction>>] >>
                  ELSE <<>>) \o from[i + 1]
    IN  IF L > len THEN <<>> ELSE from[0]

PatternSubs(path, name, direction, pat, rep) ==
    LET len == Len(path)
        L == Len(pat)
        from[i \in 0..len] ==
            IF i > len - L THEN <<>>
            ELSE (IF SubSeq(path, i + 1, i + L) = pat
                  THEN << [newp |-> SubSeq(path, 1, i) \o rep \o SubSeq(path, i + L + 1, len),
                           info |-> <<name, i, direction>>] >>
                  ELSE <<>>) \o from[i + 1]
    IN  IF L = 0 \/ L > len THEN <<>> ELSE from[0]

\* a variant that tags the two directions the wrong way round
RelationSubs_TagsSwapped(r, path) ==
    PatternSubs(path, r.name, Backward, r.lhs, r.rhs)
        \o PatternSubs(path, r.name, Forward, r.rhs, r.lhs)

RelationSubs(r, path) ==
    PatternSubs(path, r.name, Forward, r.lhs, r.rhs)
        \o PatternSubs(path, r.name, Backward, r.rhs, r.lhs)

RECURSIVE Subs(_, _)
Subs(rs, path) ==
    IF rs = <<>> THEN <<>>
    ELSE RelationSubs(Head(rs), path) \o Subs(Tail(rs), path)

(***************************************************************************)
(* The body of `for newp, info in self._subs(path)`: stops at the first    *)
(* substitution that equals the target, else enqueues the unseen ones.     *)
(***************************************************************************)
\* a variant that returns the prefix without the step that reached the target
RECURSIVE Scan_DropsLastStep(_, _, _, _, _)
Scan_DropsLastStep(subs, target, cert, queue, visited) ==
    IF subs = <<>>
    THEN [found |-> FALSE, cert |-> <<>>, q |-> queue, seen |-> visited]
    ELSE LET s == Head(subs) IN
         IF s.newp = target
         THEN [found |-> TRUE, cert |-> cert, q |-> queue, seen |-> visited]
         ELSE IF s.newp \notin visited
         THEN Scan_DropsLastStep(Tail(subs), target, cert,
                   Append(queue, [path |-> s.newp, cert |-> Append(cert, s.info)]),
                   visited \cup {s.newp})
         ELSE Scan_DropsLastStep(Tail(subs), target, cert, queue, visited)

\* a variant that grows cert in place (cert.append(info)) while it scans
RECURSIVE Scan_AppendsInPlace(_, _, _, _, _)
Scan_AppendsInPlace(subs, target, cert, queue, visited) ==
    IF subs = <<>>
    THEN [found |-> FALSE, cert |-> <<>>, q |-> queue, seen |-> visited]
    ELSE LET s == Head(subs) IN
         IF s.newp = target
         THEN [found |-> TRUE, cert |-> Append(cert, s.info), q |-> queue, seen |-> visited]
         ELSE IF s.newp \notin visited
         THEN Scan_AppendsInPlace(Tail(subs), target, Append(cert, s.info),
                   Append(queue, [path |-> s.newp, cert |-> Append(cert, s.info)]),
                   visited \cup {s.newp})
         ELSE Scan_AppendsInPlace(Tail(subs), target, cert, queue, visited)

\* a variant that enqueues a new path without adding it to the seen-set
RECURSIVE Scan_NeverMarksSeen(_, _, _, _, _)
Scan_NeverMarksSeen(subs, target, cert, queue, visited) ==
    IF subs = <<>>
    THEN [found |-> FALSE, cert |-> <<>>, q |-> queue, seen |-> visited]
    ELSE LET s == Head(subs) IN
         IF s.newp = target
         THEN [found |-> TRUE, cert |-> Append(cert, s.info), q |-> queue, seen |-> visited]
         ELSE IF s.newp \notin visited
         THEN Scan_NeverMarksSeen(Tail(subs), target, cert,
                   Append(queue, [path |-> s.newp, cert |-> Append(cert, s.info)]),
                   visited)
         ELSE Scan_NeverMarksSeen(Tail(subs), target, cert, queue, visited)

\* a variant that leaves the `for` loop at the first path already seen
RECURSIVE Scan_BreaksAtSeen(_, _, _, _, _)
Scan_BreaksAtSeen(subs, target, cert, queue, visited) ==
    IF subs = <<>>
    THEN [found |-> FALSE, cert |-> <<>>, q |-> queue, seen |-> visited]
    ELSE LET s == Head(subs) IN
         IF s.newp = target
         THEN [found |-> TRUE, cert |-> Append(cert, s.info), q |-> queue, seen |-> visited]
         ELSE IF s.newp \notin visited
         THEN Scan_BreaksAtSeen(Tail(subs), target, cert,
                   Append(queue, [path |-> s.newp, cert |-> Append(cert, s.info)]),
                   visited \cup {s.newp})
         ELSE [found |-> FALSE, cert |-> <<>>, q |-> queue, seen |-> visited]

RECURSIVE Scan(_, _, _, _, _)
Scan(subs, target, cert, queue, visited) ==
    IF subs = <<>>
    THEN [found |-> FALSE, cert |-> <<>>, q |-> queue, seen |-> visited]
    ELSE LET s == Head(subs) IN
         IF s.newp = target
         THEN [found |-> TRUE, cert |-> Append(cert, s.info), q |-> queue, seen |-> visited]
         ELSE IF s.newp \notin visited
         THEN Scan(Tail(subs), target, cert,
                   Append(queue, [path |-> s.newp, cert |-> Append(cert, s.info)]),
                   visited \cup {s.newp})
         ELSE Scan(Tail(subs), target, cert, queue, visited)

\* a variant in which budget 0 means "no limit"
LoopGuard_ZeroUnlimited(queue, count, budget) == queue # <<>> /\ (budget = 0 \/ count < budget)

\* a variant with the comparison off by one
LoopGuard_Inclusive(queue, count, budget) == queue # <<>> /\ count <= budget

\* a variant that forgets the budget
LoopGuard_IgnoresBudget(queue, count, budget) == queue # <<>>

\* `while q and steps < budget`
LoopGuard(queue, count, budget) == queue # <<>> /\ count < budget

\* a variant without the fast path
FastPath_Never(diagram) == FALSE

\* `if diagram.left == diagram.right`
FastPath(diagram) == diagram.left = diagram.right

(***************************************************************************)
(* What a call hands back: a value, or an exception.  check returns the    *)
(* pair (verdict, Certificate(steps)).                                     *)
(***************************************************************************)
Returned(value) == [status |-> "returned", error |-> "", value |-> value]
Raised(error) == [status |-> "raised", error |-> error, value |-> <<>>]
NoReturn == [status |-> "none", error |-> "", value |-> <<>>]

\* an integer result (add_generator and add_relation return an index), held
\* as a one-element tuple: TLC compares the results of different calls when it
\* checks a temporal property, and it cannot compare an integer with a list
IntResult(i) == <<i>>

Certificate(verdict, cert) == [ok |-> verdict, steps |-> cert]
Diagram(left, right) == [left |-> left, right |-> right]

NoCall == [none |-> TRUE]

(***************************************************************************)
(* CommutativityChecker.check, as a function of its inputs.                *)
(***************************************************************************)
RECURSIVE CheckLoop(_, _, _, _, _, _)
CheckLoop(rs, target, budget, queue, visited, count) ==
    IF ~LoopGuard(queue, count, budget) THEN Returned(Certificate(FALSE, <<>>))
    ELSE LET e == Head(queue)
             r == Scan(Subs(rs, e.path), target, e.cert, Tail(queue), visited)
         IN  IF r.found THEN Returned(Certificate(TRUE, r.cert))
             ELSE CheckLoop(rs, target, budget, r.q, r.seen, count + 1)

Check(rs, diagram, budget) ==
    IF FastPath(diagram) THEN Returned(Certificate(TRUE, <<>>))
    ELSE CheckLoop(rs, diagram.right, budget,
                   <<[path |-> diagram.left, cert |-> <<>>]>>, {diagram.left}, 0)

(***************************************************************************)
(* FiniteWeakNCategory: generators and relations per dimension.  Symbols   *)
(* are integer indices into a dimension's generator list.                  *)
(***************************************************************************)
MaxN == 2          \* largest n of a FiniteWeakNCategory
MaxGens == 1       \* add_generator calls accepted in a session
MaxNRels == 2      \* add_relation calls accepted in a session

Symbols == {0, 1}
Dims == 0..(MaxN + 1)

Generator(dim, name, src, tgt) == [dim |-> dim, name |-> name, src |-> src, tgt |-> tgt]
NRelation(dim, lhs, rhs, name) == [dim |-> dim, lhs |-> lhs, rhs |-> rhs, name |-> name]

GenPool == {Generator(d, nm, 0, 1) : d \in Dims, nm \in {"a", "b"}}

NRelPool ==
    UNION { { NRelation(d, <<0, 1>>, <<1, 0>>, "swap"),
              NRelation(d, <<>>, <<0>>, "ins") } : d \in Dims }

\* __post_init__: one empty list per dimension 1..n in both dicts
PostInit(size) == [k \in 1..size |-> <<>>]

Total(dict) ==
    LET RECURSIVE Sum(_)
        Sum(ks) == IF ks = {} THEN 0
                   ELSE LET k == CHOOSE x \in ks : TRUE
                        IN  Len(dict[k]) + Sum(ks \ {k})
    IN  Sum(DOMAIN dict)

\* the assert of add_generator / add_relation
DimInRange(dim, size) == 1 <= dim /\ dim <= size

(***************************************************************************)
(* add_generator / add_relation on the dict of the item's kind: every way  *)
(* the call can end.  With assertions on, a dimension outside 1..n fails   *)
(* the assert; with them stripped (python -O) the lookup dict[item.dim] on *)
(* the next line raises KeyError.  Otherwise the item is appended and its  *)
(* index returned.                                                         *)
(***************************************************************************)
\* a variant that appends (creating the list if need be) before it validates
AddOutcomes_AppendFirst(dict, size, item) ==
    LET stored == [k \in DOMAIN dict \cup {item.dim} |->
                      IF k \in DOMAIN dict
                      THEN (IF k = item.dim THEN Append(dict[k], item) ELSE dict[k])
                      ELSE <<item>>]
    IN  IF DimInRange(item.dim, size)
        THEN {[dict |-> stored, ret |-> Returned(IntResult(Len(stored[item.dim]) - 1))]}
        ELSE {[dict |-> stored, ret |-> Raised("AssertionError")]}

\* a variant that returns the length of the list after the append
AddOutcomes_ReturnsLength(dict, size, item) ==
    (IF DimInRange(item.dim, size) THEN {}
     ELSE {[dict |-> dict, ret |-> Raised("AssertionError")]})
    \cup (IF item.dim \in DOMAIN dict THEN {}
          ELSE {[dict |-> dict, ret |-> Raised("KeyError")]})
    \cup (IF DimInRange(item.dim, size) /\ item.dim \in DOMAIN dict
          THEN {[dict |-> [dict EXCEPT ![item.dim] = Append(@, item)],
                 ret |-> Returned(IntResult(Len(dict[item.dim]) + 1))]}
          ELSE {})

AddOutcomes(dict, size, item) ==
    (IF DimInRange(item.dim, size) THEN {}
     ELSE {[dict |-> dict, ret |-> Raised("AssertionError")]})
    \cup (IF item.dim \in DOMAIN dict THEN {}
          ELSE {[dict |-> dict, ret |-> Raised("KeyError")]})
    \cup (IF DimInRange(item.dim, size) /\ item.dim \in DOMAIN dict
          THEN {[dict |-> [dict EXCEPT ![item.dim] = Append(@, item)],
                 ret |-> Returned(IntResult(Len(dict[item.dim])))]}
          ELSE {})

(***************************************************************************)
(* _substitutions: the dimension's relations, both directions, by offset.  *)
(***************************************************************************)
\* a variant without the `L == 0` skip: an empty pattern occurs at every offset
NPatternSubs_EmptyPatternOccurs(path, name, direction, pat, rep) ==
    LET len == Len(path)
        L == Len(pat)
        from[i \in 0..(len + 1)] ==
            IF i > len - L THEN <<>>
            ELSE (IF SubSeq(path, i + 1, i + L) = pat
                  THEN << [newp |-> SubSeq(path, 1, i) \o rep \o SubSeq(path, i + L + 1, len),
                           info |-> <<name, i, direction>>] >>
                  ELSE <<>>) \o from[i + 1]
    IN  IF L > len THEN <<>> ELSE from[0]

NPatternSubs(path, name, direction, pat, rep) ==
    LET len == Len(path)
        L == Len(pat)
        from[i \in 0..len] ==
            IF i > len - L THEN <<>>
            ELSE (IF SubSeq(path, i + 1, i + L) = pat
                  THEN << [newp |-> SubSeq(path, 1, i) \o rep \o SubSeq(path, i + L + 1, len),
                           info |-> <<name, i, direction>>] >>
                  ELSE <<>>) \o from[i + 1]
    IN  IF L = 0 \/ L > len THEN <<>> ELSE from[0]

\* a variant that answers a missing dimension with the highest one's list
RelationsGet_Clamped(dict, dim) ==
    IF dim \in DOMAIN dict THEN dict[dim]
    ELSE IF DOMAIN dict = {} THEN <<>>
    ELSE dict[CHOOSE k \in DOMAIN dict : \A j \in DOMAIN dict : j <= k]

\* self.relations.get(dim, [])
RelationsGet(dict, dim) == IF dim \in DOMAIN dict THEN dict[dim] ELSE <<>>

RECURSIVE SubstitutionsOf(_, _)
SubstitutionsOf(rs, path) ==
    IF rs = <<>> THEN <<>>
    ELSE NPatternSubs(path, Head(rs).name, Forward, Head(rs).lhs, Head(rs).rhs)
            \o NPatternSubs(path, Head(rs).name, Backward, Head(rs).rhs, Head(rs).lhs)
            \o SubstitutionsOf(Tail(rs), path)

\* a variant that rewrites with the relations of every dimension
Substitutions_EveryDimension(dict, dim, path) ==
    LET RECURSIVE Every(_)
        Every(ks) == IF ks = {} THEN <<>>
                     ELSE LET k == CHOOSE x \in ks : \A y \in ks : x <= y
                          IN  dict[k] \o Every(ks \ {k})
    IN  SubstitutionsOf(Every(DOMAIN dict), path)

Substitutions(dict, dim, path) == SubstitutionsOf(RelationsGet(dict, dim), path)

\* the body of `for newp, info in self._substitutions(dim, path)`
RECURSIVE NScan(_, _, _, _, _)
NScan(subs, target, cert, queue, visited) ==
    IF subs = <<>>
    THEN [found |-> FALSE, cert |-> <<>>, q |-> queue, seen |-> visited]
    ELSE LET s == Head(subs) IN
         IF s.newp = target
         THEN [found |-> TRUE, cert |-> Append(cert, s.info), q |-> queue, seen |-> visited]
         ELSE IF s.newp \notin visited
         THEN NScan(Tail(subs), target, cert,
                    Append(queue, [path |-> s.newp, cert |-> Append(cert, s.info)]),
                    visited \cup {s.newp})
         ELSE NScan(Tail(subs), target, cert, queue, visited)

\* a variant with the comparison off by one
NLoopGuard_Inclusive(queue, count, budget) == queue # <<>> /\ count <= budget

\* `while q and steps < budget`
NLoopGuard(queue, count, budget) == queue # <<>> /\ count < budget

(***************************************************************************)
(* FiniteWeakNCategory.certificate, as a function of its inputs: the step  *)
(* list, empty when lhs == rhs and when rhs was not reached.               *)
(***************************************************************************)
RECURSIVE CertificateLoop(_, _, _, _, _, _, _)
CertificateLoop(dict, dim, target, budget, queue, visited, count) ==
    IF ~NLoopGuard(queue, count, budget) THEN Returned(<<>>)
    ELSE LET e == Head(queue)
             r == NScan(Substitutions(dict, dim, e.path), target, e.cert, Tail(queue), visited)
         IN  IF r.found THEN Returned(r.cert)
             ELSE CertificateLoop(dict, dim, target, budget, r.q, r.seen, count + 1)

CertificateOf(dict, dim, lhs, rhs, budget) ==
    IF lhs = rhs THEN Returned(<<>>)
    ELSE CertificateLoop(dict, dim, rhs, budget, <<[path |-> lhs, cert |-> <<>>]>>, {lhs}, 0)

(***************************************************************************)
(* hypercat Category: objects and morphisms are equal by name (and, for a  *)
(* morphism, endpoints); the composition table is keyed (g, f).            *)
(***************************************************************************)
MaxMorphs == 4     \* morphisms (identities apart) a session adds
MaxComps == 1      \* entries a session puts in the composition table

Morphism(name, source, target) == [name |-> name, source |-> source, target |-> target]

MorPool ==
    { Morphism("f", "A", "B"), Morphism("g", "B", "C"), Morphism("h", "A", "C"),
      Morphism("u", "B", "D"), Morphism("v", "C", "D"), Morphism("k", "A", "C") }

\* Category.__init__
EmptyCategory == [objects |-> {}, morphisms |-> {}, composition |-> <<>>, identities |-> <<>>]

Put(dict, key, value) == [k \in DOMAIN dict \cup {key} |-> IF k = key THEN value ELSE dict[k]]

\* Category.add_object
AddObject(cat, o) ==
    IF o \in DOMAIN cat.identities
    THEN [cat EXCEPT !.objects = @ \cup {o}]
    ELSE [cat EXCEPT !.objects = @ \cup {o},
                     !.morphisms = @ \cup {Morphism("id_" \o o, o, o)},
                     !.identities = Put(@, o, Morphism("id_" \o o, o, o))]

\* Category.add_morphism
AddMorphismTo(cat, m) ==
    AddObject(AddObject([cat EXCEPT !.morphisms = @ \cup {m}], m.source), m.target)

NoMorphism == [name |-> "None", source |-> "None", target |-> "None"]

\* a variant that looks the pair up as (f, g)
Compose_KeyedFG(cat, f, g) ==
    IF f.target # g.source THEN NoMorphism
    ELSE IF <<f, g>> \in DOMAIN cat.composition THEN cat.composition[<<f, g>>]
    ELSE IF f.source \in DOMAIN cat.identities /\ f = cat.identities[f.source] THEN g
    ELSE IF g.target \in DOMAIN cat.identities /\ g = cat.identities[g.target] THEN f
    ELSE NoMorphism

\* Category.compose: g after f, or None
Compose(cat, f, g) ==
    IF f.target # g.source THEN NoMorphism
    ELSE IF <<g, f>> \in DOMAIN cat.composition THEN cat.composition[<<g, f>>]
    ELSE IF f.source \in DOMAIN cat.identities /\ f = cat.identities[f.source] THEN g
    ELSE IF g.target \in DOMAIN cat.identities /\ g = cat.identities[g.target] THEN f
    ELSE NoMorphism

\* Category.set_composition: the table after the call, and what the call hands back
SetCompositionOn(cat, f, g, h) ==
    IF f.target # g.source THEN [cat |-> cat, ret |-> Raised("ValueError")]
    ELSE IF h.source # f.source \/ h.target # g.target THEN [cat |-> cat, ret |-> Raised("ValueError")]
    ELSE [cat |-> [cat EXCEPT !.composition = Put(@, <<g, f>>, h)], ret |-> Returned(<<>>)]

(***************************************************************************)
(* util/diagrams_checker: Path, the two shapes and the verifier.           *)
(***************************************************************************)
Path(morphisms, name) == [morphisms |-> morphisms, name |-> name]

\* Path defines __eq__ and no __hash__, so Python sets its __hash__ to None:
\* a Path, or a tuple holding one, cannot be a dict key
PathHashable == FALSE

\* Path.source / Path.target
PathSource(p) == IF p.morphisms = <<>> THEN "None" ELSE p.morphisms[1].source
PathTarget(p) == IF p.morphisms = <<>> THEN "None" ELSE p.morphisms[Len(p.morphisms)].target

\* Path.is_composable
IsComposable(p) ==
    \A i \in 1..(Len(p.morphisms) - 1) : p.morphisms[i].target = p.morphisms[i + 1].source

\* Path.validate
Validate(p, cat) ==
    IF p.morphisms = <<>> THEN "EMPTY_PATH"
    ELSE IF \E i \in DOMAIN p.morphisms : p.morphisms[i] \notin cat.morphisms THEN "INVALID_COMPOSITION"
    ELSE IF ~IsComposable(p) THEN "BROKEN_CHAIN"
    ELSE "VALID"

\* Path.compose_in_category, on a fresh Path: left to right, None as soon as a
\* composite is undefined
RECURSIVE ComposeFrom(_, _, _)
ComposeFrom(cat, result, rest) ==
    IF rest = <<>> THEN result
    ELSE LET next == Compose(cat, result, Head(rest))
         IN  IF next = NoMorphism THEN NoMorphism ELSE ComposeFrom(cat, next, Tail(rest))

ComposeInCategory(p, cat) ==
    IF p.morphisms = <<>> THEN NoMorphism
    ELSE ComposeFrom(cat, Head(p.morphisms), Tail(p.morphisms))

\* CommutativeTriangle.get_paths / CommutativeSquare.get_paths
CommutativeTriangle(vertices, edges) == [vertices |-> vertices, edges |-> edges, name |-> "triangle"]
CommutativeSquare(vertices, edges) == [vertices |-> vertices, edges |-> edges, name |-> "square"]

TrianglePaths(t) ==
    << Path(<<t.edges[1], t.edges[2]>>, "path_" \o t.edges[1].name \o "_" \o t.edges[2].name),
       Path(<<t.edges[3]>>, "path_" \o t.edges[3].name) >>

SquarePaths(sq) ==
    << Path(<<sq.edges[1], sq.edges[2]>>, "path_" \o sq.edges[1].name \o "_" \o sq.edges[2].name),
       Path(<<sq.edges[3], sq.edges[4]>>, "path_" \o sq.edges[3].name \o "_" \o sq.edges[4].name) >>

\* failure_reason: None, or a text
None == [is_none |-> TRUE, text |-> ""]
Text(t) == [is_none |-> FALSE, text |-> t]

PyBool(b) == IF b THEN "True" ELSE "False"

CommutativityProof(diagram_name, paths_checked, proof_steps, is_valid, failure_reason) ==
    [diagram_name |-> diagram_name, paths_checked |-> paths_checked, proof_steps |-> proof_steps,
     is_valid |-> is_valid, failure_reason |-> failure_reason]

(***************************************************************************)
(* check_paths_commute: what it hands back and the cache it leaves.  With  *)
(* use_cache the first thing it does is look (path1, path2) up in          *)
(* commutativity_cache, which hashes the two Paths.                        *)
(***************************************************************************)
PathsCommute(cat, path1, path2) ==
    IF PathSource(path1) # PathSource(path2) \/ PathTarget(path1) # PathTarget(path2)
    THEN FALSE
    ELSE LET comp1 == ComposeInCategory(path1, cat)
             comp2 == ComposeInCategory(path2, cat)
         IN  comp1 # NoMorphism /\ comp2 # NoMorphism /\ comp1 = comp2

CheckPathsCommute(cat, cache, path1, path2, use_cache) ==
    LET key == <<path1.morphisms, path2.morphisms>>
        reverse_key == <<path2.morphisms, path1.morphisms>>
        result == PathsCommute(cat, path1, path2)
    IN  IF ~use_cache THEN [ret |-> Returned(result), cache |-> cache]
        ELSE IF ~PathHashable THEN [ret |-> Raised("TypeError"), cache |-> cache]
        ELSE IF key \in DOMAIN cache THEN [ret |-> Returned(cache[key]), cache |-> cache]
        ELSE IF reverse_key \in DOMAIN cache THEN [ret |-> Returned(cache[reverse_key]), cache |-> cache]
        ELSE [ret |-> Returned(result), cache |-> Put(Put(cache, key, result), reverse_key, result)]

\* check_triangle_commutes
CheckTriangleCommutes(cat, cache, triangle) ==
    LET path1 == TrianglePaths(triangle)[1]
        path2 == TrianglePaths(triangle)[2]
        names == << <<path1.name, path2.name>> >>
        c == CheckPathsCommute(cat, cache, path1, path2, TRUE)
        commutes == c.ret.value
    IN  IF Validate(path1, cat) # "VALID"
        THEN [ret |-> Returned(CommutativityProof(triangle.name, names,
                                  <<"Path " \o path1.name \o " is invalid">>, FALSE,
                                  Text("Invalid path: " \o path1.name))),
              cache |-> cache]
        ELSE IF Validate(path2, cat) # "VALID"
        THEN [ret |-> Returned(CommutativityProof(triangle.name, names,
                                  <<"Path " \o path2.name \o " is invalid">>, FALSE,
                                  Text("Invalid path: " \o path2.name))),
              cache |-> cache]
        ELSE IF c.ret.status = "raised" THEN c
        ELSE [ret |-> Returned(CommutativityProof(triangle.name, names,
                                  << "Checking triangle " \o triangle.name,
                                     "Path 1: " \o path1.name \o " from " \o PathSource(path1)
                                         \o " to " \o PathTarget(path1),
                                     "Path 2: " \o path2.name \o " from " \o PathSource(path2)
                                         \o " to " \o PathTarget(path2),
                                     "Composition check: " \o PyBool(commutes) >>,
                                  commutes,
                                  IF commutes THEN None
                                  ELSE Text("Paths do not compose to same morphism"))),
              cache |-> c.cache]

\* check_square_commutes
CheckSquareCommutes(cat, cache, square) ==
    LET path1 == SquarePaths(square)[1]
        path2 == SquarePaths(square)[2]
        names == << <<path1.name, path2.name>> >>
        validation_errors ==
            (IF Validate(path1, cat) # "VALID" THEN <<"Path " \o path1.name \o " is invalid">> ELSE <<>>)
            \o (IF Validate(path2, cat) # "VALID" THEN <<"Path " \o path2.name \o " is invalid">> ELSE <<>>)
        joined == IF Len(validation_errors) = 1 THEN validation_errors[1]
                  ELSE validation_errors[1] \o "; " \o validation_errors[2]
        c == CheckPathsCommute(cat, cache, path1, path2, TRUE)
        commutes == c.ret.value
    IN  IF validation_errors # <<>>
        THEN [ret |-> Returned(CommutativityProof(square.name, names, validation_errors, FALSE, Text(joined))),
              cache |-> cache]
        ELSE IF c.ret.status = "raised" THEN c
        ELSE [ret |-> Returned(CommutativityProof(square.name, names,
                                  << "Checking square " \o square.name,
                                     "Top-right path: " \o path1.name,
                                     "Left-bottom path: " \o path2.name,
                                     "Both paths go from " \o PathSource(path1) \o " to " \o PathTarget(path1),
                                     "Commutativity: " \o PyBool(commutes) >>,
                                  commutes,
                                  IF commutes THEN None ELSE Text("Square does not commute"))),
              cache |-> c.cache]

(***************************************************************************)
(* find_commutative_triangles / find_commutative_squares: the candidates   *)
(* (distinct objects, category morphisms between them), each checked in    *)
(* the order the sets are iterated in; the first check that raises ends    *)
(* the call.                                                               *)
(***************************************************************************)
Between(cat, a, b) == {m \in cat.morphisms : m.source = a /\ m.target = b}

TriangleCandidates(cat) ==
    UNION {{[vertices |-> v, edges |-> <<f, g, h>>,
             name |-> "triangle_" \o f.name \o "_" \o g.name \o "_" \o h.name] :
                f \in Between(cat, v[1], v[2]), g \in Between(cat, v[2], v[3]),
                h \in Between(cat, v[1], v[3])} :
           v \in {w \in cat.objects \X cat.objects \X cat.objects :
                     w[1] # w[2] /\ w[3] # w[1] /\ w[3] # w[2]}}

SquareCandidates(cat) ==
    UNION {{[vertices |-> v, edges |-> <<top, right, left, bottom>>,
             name |-> "square_" \o top.name \o "_" \o right.name \o "_" \o left.name
                          \o "_" \o bottom.name] :
                top \in Between(cat, v[1], v[2]), right \in Between(cat, v[2], v[4]),
                left \in Between(cat, v[1], v[3]), bottom \in Between(cat, v[3], v[4])} :
           v \in {w \in cat.objects \X cat.objects \X cat.objects \X cat.objects :
                     Cardinality({w[1], w[2], w[3], w[4]}) = 4}}

RECURSIVE FindTrianglesIn(_, _, _, _)
FindTrianglesIn(cat, cache, todo, found) ==
    IF todo = {} THEN [ret |-> Returned(found), cache |-> cache]
    ELSE LET t == CHOOSE x \in todo : TRUE
             c == CheckTriangleCommutes(cat, cache, t)
         IN  IF c.ret.status = "raised" THEN c
             ELSE FindTrianglesIn(cat, c.cache, todo \ {t},
                      IF c.ret.value.is_valid
                      THEN Append(found, [shape |-> t, proof |-> c.ret.value])
                      ELSE found)

RECURSIVE FindSquaresIn(_, _, _, _)
FindSquaresIn(cat, cache, todo, found) ==
    IF todo = {} THEN [ret |-> Returned(found), cache |-> cache]
    ELSE LET sq == CHOOSE x \in todo : TRUE
             c == CheckSquareCommutes(cat, cache, sq)
         IN  IF c.ret.status = "raised" THEN c
             ELSE FindSquaresIn(cat, c.cache, todo \ {sq},
                      IF c.ret.value.is_valid
                      THEN Append(found, [shape |-> sq, proof |-> c.ret.value])
                      ELSE found)

FindCommutativeTriangles(cat, cache) == FindTrianglesIn(cat, cache, TriangleCandidates(cat), <<>>)
FindCommutativeSquares(cat, cache) == FindSquaresIn(cat, cache, SquareCandidates(cat), <<>>)

(***************************************************************************)
(* find_all_paths(source, target, max_length): the cached list for         *)
(* (source, target) if there is one; else [identity] when source == target *)
(* has an identity; else a breadth-first walk along the category's         *)
(* morphisms that stores and returns the valid paths it met at target.     *)
(* A set is iterated in an order that is fixed while the set is unchanged. *)
(***************************************************************************)
RECURSIVE IterationOrder(_)
IterationOrder(S) ==
    IF S = {} THEN <<>>
    ELSE LET x == CHOOSE y \in S : TRUE IN <<x>> \o IterationOrder(S \ {x})

\* Path._generate_name
RECURSIVE JoinReversed(_)
JoinReversed(ms) ==
    IF Len(ms) = 1 THEN ms[1].name
    ELSE JoinReversed(Tail(ms)) \o " o " \o ms[1].name

GenerateName(ms) == IF ms = <<>> THEN "empty_path" ELSE JoinReversed(ms)

\* `for morphism in self.category.morphisms: if morphism.source == current_obj`
RECURSIVE Outgoing(_, _, _)
Outgoing(ms, current_obj, current_path) ==
    IF ms = <<>> THEN <<>>
    ELSE (IF Head(ms).source = current_obj
          THEN << [obj |-> Head(ms).target, path |-> Append(current_path, Head(ms))] >>
          ELSE <<>>) \o Outgoing(Tail(ms), current_obj, current_path)

\* `if len(current_path) >= max_length: continue`
TooLong(current_path, max_length) == Len(current_path) >= max_length

\* the `while queue` loop, lines 192-214
RECURSIVE PathsLoop(_, _, _, _, _, _)
PathsLoop(cat, target, max_length, queue, visited_states, paths) ==
    IF queue = <<>> THEN paths
    ELSE LET e == Head(queue)
             state == <<e.obj, e.path>>
         IN  IF TooLong(e.path, max_length)
             THEN PathsLoop(cat, target, max_length, Tail(queue), visited_states, paths)
             ELSE IF state \in visited_states
             THEN PathsLoop(cat, target, max_length, Tail(queue), visited_states, paths)
             ELSE PathsLoop(cat, target, max_length,
                      Tail(queue) \o Outgoing(IterationOrder(cat.morphisms), e.obj, e.path),
                      visited_states \cup {state},
                      IF e.obj = target /\ e.path # <<>>
                            /\ Validate(Path(e.path, GenerateName(e.path)), cat) = "VALID"
                      THEN Append(paths, Path(e.path, GenerateName(e.path)))
                      ELSE paths)

\* lines 179-216: what a call that missed the cache computes
ComputePaths(cat, source, target, max_length) ==
    IF source = target /\ source \in DOMAIN cat.identities
    THEN << Path(<<cat.identities[source]>>, "id_" \o source) >>
    ELSE PathsLoop(cat, target, max_length, << [obj |-> source, path |-> <<>>] >>, {}, <<>>)

\* a variant whose cache key holds max_length too
CacheKey_WithLength(source, target, max_length) == <<source, target, max_length>>

\* `cache_key = (source, target)`
CacheKey(source, target, max_length) == <<source, target>>

FindAllPaths(cat, cache, source, target, max_length) ==
    LET cache_key == CacheKey(source, target, max_length)
        paths == ComputePaths(cat, source, target, max_length)
    IN  IF cache_key \in DOMAIN cache
        THEN [ret |-> Returned(cache[cache_key]), cache |-> cache]
        ELSE [ret |-> Returned(paths), cache |-> Put(cache, cache_key, paths)]

\* the shapes a session asks about
TriangleEdges == {m \in MorPool : m.name \in {"f", "g", "h", "u"}}
SquareEdges == {m \in MorPool : m.name \in {"f", "u", "h", "v"}}

Triangles ==
    {CommutativeTriangle(vs, es) :
        vs \in {<<"A", "B", "C">>, <<"A", "C", "B">>},
        es \in TriangleEdges \X TriangleEdges \X TriangleEdges}

Squares ==
    {CommutativeSquare(vs, es) :
        vs \in {<<"A", "B", "C", "D">>, <<"A", "C", "B", "D">>},
        es \in SquareEdges \X SquareEdges \X SquareEdges \X SquareEdges}

NonIdentities(cat) == {m \in cat.morphisms : m \in MorPool}

(***************************************************************************)
(* The session.                                                            *)
(***************************************************************************)
MaxThreads == 2    \* threads that call into the object besides the session's own
Threads == 1..MaxThreads

\* the frame of a thread that has not called yet
NoThread ==
    [fn |-> "none", call |-> NoCall, pc |-> "unstarted",
     q |-> <<>>, seen |-> {}, steps |-> 0, ret |-> NoReturn]

InitOn(kind) ==
    /\ obj = kind
    /\ threads = [t \in Threads |-> NoThread]
    /\ rels = <<>>
    /\ n = 0
    /\ generators = <<>>
    /\ relations = <<>>
    /\ category = EmptyCategory
    /\ path_cache = <<>>
    /\ commutativity_cache = <<>>
    /\ fn = "none"
    /\ call = NoCall
    /\ pc = "new"
    /\ q = <<>>
    /\ seen = {}
    /\ steps = 0
    /\ ret = NoReturn

Init == \E kind \in {"checker", "ncat", "verifier"} : InitOn(kind)

\* CommutativityChecker.__init__
NewChecker(given) ==
    /\ obj = "checker"
    /\ pc = "new"
    /\ rels' = given
    /\ fn' = "__init__"
    /\ call' = [relations |-> given]
    /\ ret' = Returned(<<>>)
    /\ pc' = "done"
    /\ UNCHANGED <<obj, threads, category, path_cache, commutativity_cache, n, generators, relations, q, seen, steps>>

\* FiniteWeakNCategory(n) with the default (empty) dicts, then __post_init__
NewNCat(size) ==
    /\ obj = "ncat"
    /\ pc = "new"
    /\ n' = size
    /\ generators' = PostInit(size)
    /\ relations' = PostInit(size)
    /\ fn' = "__post_init__"
    /\ call' = [n |-> size]
    /\ ret' = Returned(<<>>)
    /\ pc' = "done"
    /\ UNCHANGED <<obj, threads, category, path_cache, commutativity_cache, rels, q, seen, steps>>

\* add_generator
AddGenerator(g) ==
    /\ obj = "ncat"
    /\ pc = "idle"
    /\ fn' = "add_generator"
    /\ call' = [g |-> g]
    /\ pc' = "done"
    /\ \E o \in AddOutcomes(generators, n, g) :
           /\ generators' = o.dict
           /\ ret' = o.ret
    /\ Total(generators') <= MaxGens
    /\ UNCHANGED <<obj, threads, category, path_cache, commutativity_cache, rels, n, relations, q, seen, steps>>

\* add_relation
AddRelation(r) ==
    /\ obj = "ncat"
    /\ pc = "idle"
    /\ fn' = "add_relation"
    /\ call' = [r |-> r]
    /\ pc' = "done"
    /\ \E o \in AddOutcomes(relations, n, r) :
           /\ relations' = o.dict
           /\ ret' = o.ret
    /\ Total(relations') <= MaxNRels
    /\ UNCHANGED <<obj, threads, category, path_cache, commutativity_cache, rels, n, generators, q, seen, steps>>

\* certificate, lines 45-49: the lhs == rhs return, or the loop's initial state
CertificateEnter(dim, lhs, rhs, budget) ==
    /\ obj = "ncat"
    /\ pc = "idle"
    /\ fn' = "certificate"
    /\ call' = [dim |-> dim, lhs |-> lhs, rhs |-> rhs, budget |-> budget]
    /\ steps' = 0
    /\ IF lhs = rhs
       THEN /\ ret' = Returned(<<>>)
            /\ pc' = "done"
            /\ q' = <<>>
            /\ seen' = {}
       ELSE /\ ret' = NoReturn
            /\ pc' = "loop"
            /\ q' = <<[path |-> lhs, cert |-> <<>>]>>
            /\ seen' = {lhs}
    /\ UNCHANGED <<obj, threads, category, path_cache, commutativity_cache, rels, n, generators, relations>>

\* certificate, lines 50-57: one iteration of the while loop
CertificateExpand ==
    /\ obj = "ncat"
    /\ fn = "certificate"
    /\ pc = "loop"
    /\ NLoopGuard(q, steps, call.budget)
    /\ LET e == Head(q)
           r == NScan(Substitutions(relations, call.dim, e.path), call.rhs, e.cert, Tail(q), seen)
       IN  /\ steps' = steps + 1
           /\ q' = r.q
           /\ seen' = r.seen
           /\ IF r.found
              THEN ret' = Returned(r.cert) /\ pc' = "done"
              ELSE ret' = ret /\ pc' = "loop"
    /\ UNCHANGED <<obj, threads, category, path_cache, commutativity_cache, rels, n, generators, relations, fn, call>>

\* certificate, line 58: the loop ended without reaching rhs
CertificateExit ==
    /\ obj = "ncat"
    /\ fn = "certificate"
    /\ pc = "loop"
    /\ ~NLoopGuard(q, steps, call.budget)
    /\ ret' = Returned(<<>>)
    /\ pc' = "done"
    /\ UNCHANGED <<obj, threads, category, path_cache, commutativity_cache, rels, n, generators, relations, fn, call, q, seen, steps>>

\* check, lines 43-46: the reflexivity fast path, or the loop's initial state
CheckEnter(diagram, budget) ==
    /\ obj = "checker"
    /\ pc = "idle"
    /\ fn' = "check"
    /\ call' = [diagram |-> diagram, budget |-> budget]
    /\ steps' = 0
    /\ IF FastPath(diagram)
       THEN /\ ret' = Returned(Certificate(TRUE, <<>>))
            /\ pc' = "done"
            /\ q' = <<>>
            /\ seen' = {}
       ELSE /\ ret' = NoReturn
            /\ pc' = "loop"
            /\ q' = <<[path |-> diagram.left, cert |-> <<>>]>>
            /\ seen' = {diagram.left}
    /\ UNCHANGED <<obj, threads, category, path_cache, commutativity_cache, rels, n, generators, relations>>

\* check, lines 47-54: one iteration of the while loop
CheckExpand ==
    /\ obj = "checker"
    /\ fn = "check"
    /\ pc = "loop"
    /\ LoopGuard(q, steps, call.budget)
    /\ LET e == Head(q)
           r == Scan(Subs(rels, e.path), call.diagram.right, e.cert, Tail(q), seen)
       IN  /\ steps' = steps + 1
           /\ q' = r.q
           /\ seen' = r.seen
           /\ IF r.found
              THEN ret' = Returned(Certificate(TRUE, r.cert)) /\ pc' = "done"
              ELSE ret' = ret /\ pc' = "loop"
    /\ UNCHANGED <<obj, threads, category, path_cache, commutativity_cache, rels, n, generators, relations, fn, call>>

\* check, line 55: the loop ended without reaching the target
CheckExit ==
    /\ obj = "checker"
    /\ fn = "check"
    /\ pc = "loop"
    /\ ~LoopGuard(q, steps, call.budget)
    /\ ret' = Returned(Certificate(FALSE, <<>>))
    /\ pc' = "done"
    /\ UNCHANGED <<obj, threads, category, path_cache, commutativity_cache, rels, n, generators, relations, fn, call, q, seen, steps>>

\* Category("c"), then CommutativityChecker(category): empty caches
NewVerifier ==
    /\ obj = "verifier"
    /\ pc = "new"
    /\ category' = EmptyCategory
    /\ path_cache' = <<>>
    /\ commutativity_cache' = <<>>
    /\ fn' = "__init__"
    /\ call' = NoCall
    /\ ret' = Returned(<<>>)
    /\ pc' = "done"
    /\ UNCHANGED <<obj, threads, rels, n, generators, relations, q, seen, steps>>

\* Category.add_morphism
AddMorphism(m) ==
    /\ obj = "verifier"
    /\ pc = "idle"
    /\ category' = AddMorphismTo(category, m)
    /\ Cardinality(NonIdentities(category')) <= MaxMorphs
    /\ fn' = "add_morphism"
    /\ call' = [morph |-> m]
    /\ ret' = Returned(<<>>)
    /\ pc' = "done"
    /\ UNCHANGED <<obj, threads, rels, n, generators, relations, path_cache, commutativity_cache, q, seen, steps>>

\* Category.set_composition
SetComposition(f, g, h) ==
    /\ obj = "verifier"
    /\ pc = "idle"
    /\ category' = SetCompositionOn(category, f, g, h).cat
    /\ Cardinality(DOMAIN category'.composition) <= MaxComps
    /\ fn' = "set_composition"
    /\ call' = [f |-> f, g |-> g, h |-> h]
    /\ ret' = SetCompositionOn(category, f, g, h).ret
    /\ pc' = "done"
    /\ UNCHANGED <<obj, threads, rels, n, generators, relations, path_cache, commutativity_cache, q, seen, steps>>

\* CommutativityChecker.check_triangle_commutes
CheckTriangle(triangle) ==
    /\ obj = "verifier"
    /\ pc = "idle"
    /\ fn' = "check_triangle_commutes"
    /\ call' = [triangle |-> triangle]
    /\ ret' = CheckTriangleCommutes(category, commutativity_cache, triangle).ret
    /\ commutativity_cache' = CheckTriangleCommutes(category, commutativity_cache, triangle).cache
    /\ pc' = "done"
    /\ UNCHANGED <<obj, threads, rels, n, generators, relations, category, path_cache, q, seen, steps>>

\* CommutativityChecker.check_square_commutes
CheckSquare(square) ==
    /\ obj = "verifier"
    /\ pc = "idle"
    /\ fn' = "check_square_commutes"
    /\ call' = [square |-> square]
    /\ ret' = CheckSquareCommutes(category, commutativity_cache, square).ret
    /\ commutativity_cache' = CheckSquareCommutes(category, commutativity_cache, square).cache
    /\ pc' = "done"
    /\ UNCHANGED <<obj, threads, rels, n, generators, relations, category, path_cache, q, seen, steps>>

\* CommutativityChecker.find_commutative_triangles
FindTriangles ==
    /\ obj = "verifier"
    /\ pc = "idle"
    /\ fn' = "find_commutative_triangles"
    /\ call' = NoCall
    /\ ret' = FindCommutativeTriangles(category, commutativity_cache).ret
    /\ commutativity_cache' = FindCommutativeTriangles(category, commutativity_cache).cache
    /\ pc' = "done"
    /\ UNCHANGED <<obj, threads, rels, n, generators, relations, category, path_cache, q, seen, steps>>

\* CommutativityChecker.find_commutative_squares
FindSquares ==
    /\ obj = "verifier"
    /\ pc = "idle"
    /\ fn' = "find_commutative_squares"
    /\ call' = NoCall
    /\ ret' = FindCommutativeSquares(category, commutativity_cache).ret
    /\ commutativity_cache' = FindCommutativeSquares(category, commutativity_cache).cache
    /\ pc' = "done"
    /\ UNCHANGED <<obj, threads, rels, n, generators, relations, category, path_cache, q, seen, steps>>

\* Category.compose
ComposeCall(f, g) ==
    /\ obj = "verifier"
    /\ pc = "idle"
    /\ fn' = "compose"
    /\ call' = [f |-> f, g |-> g]
    /\ ret' = Returned(Compose(category, f, g))
    /\ pc' = "done"
    /\ UNCHANGED <<obj, threads, rels, n, generators, relations, category, path_cache, commutativity_cache,
                   q, seen, steps>>

\* the queries a session makes of the verifier's caches
MaxPathLength == 3   \* largest max_length of a find_all_paths call
MaxCached == 2       \* (source, target) pairs a session gets cached

QueryObjects == {"A", "C"}

QueryPaths ==
    { Path(<<Morphism("f", "A", "B"), Morphism("g", "B", "C")>>, "g o f"),
      Path(<<Morphism("h", "A", "C")>>, "h"),
      Path(<<Morphism("k", "A", "C")>>, "k") }

\* CommutativityChecker.find_all_paths
FindAllPathsCall(source, target, max_length) ==
    /\ obj = "verifier"
    /\ pc = "idle"
    /\ fn' = "find_all_paths"
    /\ call' = [source |-> source, target |-> target, max_length |-> max_length]
    /\ ret' = FindAllPaths(category, path_cache, source, target, max_length).ret
    /\ path_cache' = FindAllPaths(category, path_cache, source, target, max_length).cache
    /\ Cardinality(DOMAIN path_cache') <= MaxCached
    /\ pc' = "done"
    /\ UNCHANGED <<obj, threads, rels, n, generators, relations, category, commutativity_cache, q, seen, steps>>

\* CommutativityChecker.check_paths_commute
CheckPathsCall(path1, path2, use_cache) ==
    /\ obj = "verifier"
    /\ pc = "idle"
    /\ fn' = "check_paths_commute"
    /\ call' = [path1 |-> path1, path2 |-> path2, use_cache |-> use_cache]
    /\ ret' = CheckPathsCommute(category, commutativity_cache, path1, path2, use_cache).ret
    /\ commutativity_cache' = CheckPathsCommute(category, commutativity_cache, path1, path2, use_cache).cache
    /\ pc' = "done"
    /\ UNCHANGED <<obj, threads, rels, n, generators, relations, category, path_cache, q, seen, steps>>

\* the caller drops the result; the call's locals are gone
Discard ==
    /\ pc = "done"
    /\ pc' = "idle"
    /\ call' = NoCall
    /\ ret' = NoReturn
    /\ q' = <<>>
    /\ seen' = {}
    /\ steps' = 0
    /\ fn' = "none"
    /\ UNCHANGED <<obj, threads, category, path_cache, commutativity_cache, rels, n, generators, relations>>

NextChecker ==
    \/ \E given \in RelLists : NewChecker(given)
    \/ \E left \in PathsUpTo(Labels, MaxLen), right \in PathsUpTo(Labels, MaxLen), budget \in Budgets :
           CheckEnter(Diagram(left, right), budget)
    \/ CheckExpand
    \/ CheckExit
    \/ Discard

NextNCat ==
    \/ \E size \in 0..MaxN : NewNCat(size)
    \/ \E g \in GenPool : AddGenerator(g)
    \/ \E r \in NRelPool : AddRelation(r)
    \/ \E dim \in Dims, lhs \in PathsUpTo(Symbols, MaxLen), rhs \in PathsUpTo(Symbols, MaxLen), budget \in Budgets :
           CertificateEnter(dim, lhs, rhs, budget)
    \/ CertificateExpand
    \/ CertificateExit
    \/ Discard

NextVerifier ==
    \/ NewVerifier
    \/ \E m \in MorPool : AddMorphism(m)
    \/ \E f \in MorPool, g \in MorPool, h \in MorPool : SetComposition(f, g, h)
    \/ \E triangle \in Triangles : CheckTriangle(triangle)
    \/ \E square \in Squares : CheckSquare(square)
    \/ FindTriangles
    \/ FindSquares
    \/ \E f \in MorPool, g \in MorPool : ComposeCall(f, g)
    \/ Discard

\* add_morphism / set_composition while nothing is cached yet
BuildMorphism(m) == path_cache = <<>> /\ AddMorphism(m)
BuildComposition(f, g, h) == path_cache = <<>> /\ SetComposition(f, g, h)

\* a verifier whose category is built before the first find_all_paths call
\* and left alone afterwards
NextQueries ==
    \/ NewVerifier
    \/ \E m \in MorPool : BuildMorphism(m)
    \/ \E f \in MorPool, g \in MorPool, h \in MorPool : BuildComposition(f, g, h)
    \/ \E source \in QueryObjects, target \in QueryObjects, max_length \in 0..MaxPathLength :
           FindAllPathsCall(source, target, max_length)
    \/ \E path1 \in QueryPaths, path2 \in QueryPaths, use_cache \in BOOLEAN :
           CheckPathsCall(path1, path2, use_cache)
    \/ Discard

(***************************************************************************)
(* Calls from further threads.  A thread runs one call; its steps           *)
(* interleave with the other threads' at the granularity of the session's  *)
(* own steps.  The session registers nothing while a thread is inside a    *)
(* call.                                                                   *)
(***************************************************************************)
Quiet == \A t \in Threads : threads[t].pc = "unstarted"

\* the shared heap: what a thread's step leaves alone unless it says otherwise
Heap == <<obj, rels, n, generators, relations, category, path_cache, commutativity_cache>>

\* the session's own call
Own == <<fn, call, pc, q, seen, steps, ret>>

\* the frame of thread t with seen shared by every call, as an attribute of
\* the object would be
Frame_SharedSeen(ts, t) == [ts[t] EXCEPT !.seen = UNION {ts[u].seen : u \in DOMAIN ts}]

\* the frame of thread t: q, seen and steps are locals, created by the call
Frame(ts, t) == ts[t]

\* the calls the threads make
ThreadStarts == {<<"a">>, <<"a", "b">>}
ThreadEnds == {<<"b">>, <<"b", "a">>, <<"a", "b">>}
ThreadBudgets == {1, MaxBudget}
ThreadDims == {1, 2}
ThreadLhs == {<<0>>, <<0, 1>>}
ThreadRhs == {<<1>>, <<1, 0>>, <<0, 1>>}

\* add_generator / add_relation while no thread is inside a call
RegisterGenerator(g) == Quiet /\ AddGenerator(g)
RegisterRelation(r) == Quiet /\ AddRelation(r)

\* check, lines 43-46, in thread t
ThreadCheckEnter(t, diagram, budget) ==
    /\ obj = "checker"
    /\ pc = "idle"
    /\ threads[t].pc = "unstarted"
    /\ threads' = [threads EXCEPT ![t] =
           IF FastPath(diagram)
           THEN [fn |-> "check", call |-> [diagram |-> diagram, budget |-> budget],
                 pc |-> "done", q |-> <<>>, seen |-> {}, steps |-> 0,
                 ret |-> Returned(Certificate(TRUE, <<>>))]
           ELSE [fn |-> "check", call |-> [diagram |-> diagram, budget |-> budget],
                 pc |-> "loop", q |-> <<[path |-> diagram.left, cert |-> <<>>]>>,
                 seen |-> {diagram.left}, steps |-> 0, ret |-> NoReturn]]
    /\ UNCHANGED <<Heap, Own>>

\* check, lines 47-54, in thread t: one iteration of the while loop
ThreadCheckExpand(t) ==
    /\ obj = "checker"
    /\ threads[t].fn = "check"
    /\ threads[t].pc = "loop"
    /\ LET my == Frame(threads, t)
       IN  /\ LoopGuard(my.q, my.steps, my.call.budget)
           /\ LET e == Head(my.q)
                  r == Scan(Subs(rels, e.path), my.call.diagram.right, e.cert, Tail(my.q), my.seen)
              IN  threads' = [threads EXCEPT ![t] =
                      [@ EXCEPT !.steps = my.steps + 1,
                                !.q = r.q,
                                !.seen = r.seen,
                                !.ret = IF r.found THEN Returned(Certificate(TRUE, r.cert)) ELSE @,
                                !.pc = IF r.found THEN "done" ELSE "loop"]]
    /\ UNCHANGED <<Heap, Own>>

\* check, line 55, in thread t
ThreadCheckExit(t) ==
    /\ obj = "checker"
    /\ threads[t].fn = "check"
    /\ threads[t].pc = "loop"
    /\ LET my == Frame(threads, t)
       IN  ~LoopGuard(my.q, my.steps, my.call.budget)
    /\ threads' = [threads EXCEPT ![t] =
           [@ EXCEPT !.ret = Returned(Certificate(FALSE, <<>>)), !.pc = "done"]]
    /\ UNCHANGED <<Heap, Own>>

\* certificate, lines 45-49, in thread t
ThreadCertificateEnter(t, dim, lhs, rhs, budget) ==
    /\ obj = "ncat"
    /\ pc = "idle"
    /\ threads[t].pc = "unstarted"
    /\ threads' = [threads EXCEPT ![t] =
           IF lhs = rhs
           THEN [fn |-> "certificate",
                 call |-> [dim |-> dim, lhs |-> lhs, rhs |-> rhs, budget |-> budget],
                 pc |-> "done", q |-> <<>>, seen |-> {}, steps |-> 0, ret |-> Returned(<<>>)]
           ELSE [fn |-> "certificate",
                 call |-> [dim |-> dim, lhs |-> lhs, rhs |-> rhs, budget |-> budget],
                 pc |-> "loop", q |-> <<[path |-> lhs, cert |-> <<>>]>>,
                 seen |-> {lhs}, steps |-> 0, ret |-> NoReturn]]
    /\ UNCHANGED <<Heap, Own>>

\* certificate, lines 50-57, in thread t: one iteration of the while loop
ThreadCertificateExpand(t) ==
    /\ obj = "ncat"
    /\ threads[t].fn = "certificate"
    /\ threads[t].pc = "loop"
    /\ LET my == Frame(threads, t)
       IN  /\ NLoopGuard(my.q, my.steps, my.call.budget)
           /\ LET e == Head(my.q)
                  r == NScan(Substitutions(relations, my.call.dim, e.path), my.call.rhs,
                             e.cert, Tail(my.q), my.seen)
              IN  threads' = [threads EXCEPT ![t] =
                      [@ EXCEPT !.steps = my.steps + 1,
                                !.q = r.q,
                                !.seen = r.seen,
                                !.ret = IF r.found THEN Returned(r.cert) ELSE @,
                                !.pc = IF r.found THEN "done" ELSE "loop"]]
    /\ UNCHANGED <<Heap, Own>>

\* certificate, line 58, in thread t
ThreadCertificateExit(t) ==
    /\ obj = "ncat"
    /\ threads[t].fn = "certificate"
    /\ threads[t].pc = "loop"
    /\ LET my == Frame(threads, t)
       IN  ~NLoopGuard(my.q, my.steps, my.call.budget)
    /\ threads' = [threads EXCEPT ![t] = [@ EXCEPT !.ret = Returned(<<>>), !.pc = "done"]]
    /\ UNCHANGED <<Heap, Own>>

\* a rewrite engine that is set up by the session and then called from the
\* threads
NextRewriteThreads ==
    \/ \E given \in RelLists : NewChecker(given)
    \/ \E size \in 0..MaxN : NewNCat(size)
    \/ \E g \in GenPool : RegisterGenerator(g)
    \/ \E r \in NRelPool : RegisterRelation(r)
    \/ Discard
    \/ \E t \in Threads, left \in ThreadStarts, right \in ThreadEnds, budget \in ThreadBudgets :
           ThreadCheckEnter(t, Diagram(left, right), budget)
    \/ \E t \in Threads : ThreadCheckExpand(t)
    \/ \E t \in Threads : ThreadCheckExit(t)
    \/ \E t \in Threads, dim \in ThreadDims, lhs \in ThreadLhs, rhs \in ThreadRhs,
          budget \in ThreadBudgets :
           ThreadCertificateEnter(t, dim, lhs, rhs, budget)
    \/ \E t \in Threads : ThreadCertificateExpand(t)
    \/ \E t \in Threads : ThreadCertificateExit(t)

\* add_morphism / set_composition before any call from a thread
SetUpMorphism(m) == Quiet /\ BuildMorphism(m)
SetUpComposition(f, g, h) == Quiet /\ BuildComposition(f, g, h)

\* the max_length values the threads ask for
ThreadLengths == {2, MaxPathLength}

\* find_all_paths, lines 175-177, in thread t: the cached list, or a miss
ThreadFindEnter(t, source, target, max_length) ==
    /\ obj = "verifier"
    /\ pc = "idle"
    /\ threads[t].pc = "unstarted"
    /\ LET cache_key == CacheKey(source, target, max_length)
       IN  threads' = [threads EXCEPT ![t] =
               [fn |-> "find_all_paths",
                call |-> [source |-> source, target |-> target, max_length |-> max_length],
                pc |-> IF cache_key \in DOMAIN path_cache THEN "done" ELSE "miss",
                q |-> <<>>, seen |-> {}, steps |-> 0,
                ret |-> IF cache_key \in DOMAIN path_cache
                        THEN Returned(path_cache[cache_key]) ELSE NoReturn]]
    /\ UNCHANGED <<Heap, Own>>

\* find_all_paths, lines 179-217, in thread t: after a miss the list is
\* computed from the category, stored under the key and returned
ThreadFindStore(t) ==
    /\ obj = "verifier"
    /\ threads[t].fn = "find_all_paths"
    /\ threads[t].pc = "miss"
    /\ LET my == Frame(threads, t).call
           cache_key == CacheKey(my.source, my.target, my.max_length)
           paths == ComputePaths(category, my.source, my.target, my.max_length)
       IN  /\ path_cache' = Put(path_cache, cache_key, paths)
           /\ threads' = [threads EXCEPT ![t] = [@ EXCEPT !.ret = Returned(paths), !.pc = "done"]]
    /\ UNCHANGED <<obj, rels, n, generators, relations, category, commutativity_cache, Own>>

\* a verifier whose category is built by the session and then queried from
\* the threads
NextVerifierThreads ==
    \/ NewVerifier
    \/ \E m \in MorPool : SetUpMorphism(m)
    \/ \E f \in MorPool, g \in MorPool, h \in MorPool : SetUpComposition(f, g, h)
    \/ Discard
    \/ \E t \in Threads, source \in QueryObjects, target \in QueryObjects,
          max_length \in ThreadLengths :
           ThreadFindEnter(t, source, target, max_length)
    \/ \E t \in Threads : ThreadFindStore(t)

Next == NextChecker \/ NextNCat \/ NextVerifier \/ NextQueries \/ NextRewriteThreads
        \/ NextVerifierThreads

\* every session
Spec == Init /\ [][Next]_vars

\* the sessions on either rewrite engine
SpecRewrite == (InitOn("checker") \/ InitOn("ncat")) /\ [][NextChecker \/ NextNCat]_vars

\* the same sessions, where a call that is running keeps running: the
\* interpreter executes the loop of check / certificate until it returns
SpecRewriteFair ==
    /\ SpecRewrite
    /\ WF_vars(CheckExpand) /\ WF_vars(CheckExit)
    /\ WF_vars(CertificateExpand) /\ WF_vars(CertificateExit)

\* the sessions on a composition-based verifier
SpecVerifier == InitOn("verifier") /\ [][NextVerifier]_vars

\* the sessions that query a verifier on a category that is no longer modified
SpecQueries == InitOn("verifier") /\ [][NextQueries]_vars

\* the sessions that set a rewrite engine up and then call it from several threads
SpecRewriteThreads == (InitOn("checker") \/ InitOn("ncat")) /\ [][NextRewriteThreads]_vars

\* the sessions that build a verifier's category and then query it from several threads
SpecVerifierThreads == InitOn("verifier") /\ [][NextVerifierThreads]_vars

\* the sessions on a CommutativityChecker
SpecChecker == InitOn("checker") /\ [][NextChecker]_vars

\* the sessions on a FiniteWeakNCategory
SpecNCat == InitOn("ncat") /\ [][NextNCat]_vars

(***************************************************************************)
(* Vocabulary of the properties.                                           *)
(***************************************************************************)
Done(f) == pc = "done" /\ fn = f

\* replacing r's pattern for the direction, found at offset i of path
ApplyAt(r, direction, i, path) ==
    LET pat == IF direction = Forward THEN r.lhs ELSE r.rhs
        rep == IF direction = Forward THEN r.rhs ELSE r.lhs
    IN  IF i + Len(pat) <= Len(path) /\ SubSeq(path, i + 1, i + Len(pat)) = pat
        THEN {SubSeq(path, 1, i) \o rep \o SubSeq(path, i + Len(pat) + 1, Len(path))}
        ELSE {}

\* what replaying one step can give: a step names its relation, and every
\* relation of the list that bears the name is a candidate
StepResults(rs, path, step) ==
    UNION {ApplyAt(rs[k], step[3], step[2], path) : k \in {j \in DOMAIN rs : rs[j].name = step[1]}}

RECURSIVE ReplayResults(_, _, _)
ReplayResults(rs, paths, cert) ==
    IF cert = <<>> THEN paths
    ELSE ReplayResults(rs, UNION {StepResults(rs, p, Head(cert)) : p \in paths}, Tail(cert))

\* a name stands for one relation only
NamesIdentify(rs) == \A i, j \in DOMAIN rs : rs[i].name = rs[j].name => rs[i] = rs[j]

\* a rewrite step: a non-empty pattern of r replaced at offset i
Rewrites(r, direction, i, from, to) ==
    /\ (IF direction = Forward THEN r.lhs ELSE r.rhs) # <<>>
    /\ to \in ApplyAt(r, direction, i, from)

\* the rewrites of `from` into `to`, as <<relation index, direction rank, offset>>
RewritesInto(rs, from, to) ==
    {c \in (DOMAIN rs) \X {1, 2} \X (0..Len(from)) :
        Rewrites(rs[c[1]], IF c[2] = 1 THEN Forward ELSE Backward, c[3], from, to)}

Before(c, d) ==
    \/ c[1] < d[1]
    \/ c[1] = d[1] /\ c[2] < d[2]
    \/ c[1] = d[1] /\ c[2] = d[2] /\ c[3] <= d[3]

\* the first of them: registration order, forward before backward, lowest offset
FirstRewrite(rs, from, to) ==
    LET c == CHOOSE x \in RewritesInto(rs, from, to) : \A y \in RewritesInto(rs, from, to) : Before(x, y)
    IN  <<rs[c[1]].name, c[3], IF c[2] = 1 THEN Forward ELSE Backward>>

(***************************************************************************)
(* C1 (as stated): whenever check or certificate succeeds, replaying the   *)
(* certificate's steps from the start path - each step replacing the named *)
(* relation's pattern at the recorded offset - yields exactly the end      *)
(* path, for every relation list.                                          *)
(***************************************************************************)
C1_ReplayYieldsExactlyEnd ==
    /\ (Done("check") /\ ret.value.ok) =>
           ReplayResults(rels, {call.diagram.left}, ret.value.steps) = {call.diagram.right}
    /\ (Done("certificate") /\ (ret.value # <<>> \/ call.lhs = call.rhs)) =>
           ReplayResults(RelationsGet(relations, call.dim), {call.lhs}, ret.value) = {call.rhs}

(***************************************************************************)
(* C1 (amended): whenever check or certificate succeeds, replaying the     *)
(* certificate from the start path, taking for each step a relation that   *)
(* bears the step's name, can yield the end path; and it yields exactly    *)
(* the end path whenever no two different registered relations share a     *)
(* name.                                                                   *)
(***************************************************************************)
C1_ReplayWithIdentifyingNames ==
    /\ (Done("check") /\ ret.value.ok) =>
           LET R == ReplayResults(rels, {call.diagram.left}, ret.value.steps)
           IN  /\ call.diagram.right \in R
               /\ NamesIdentify(rels) => R = {call.diagram.right}
    /\ (Done("certificate") /\ (ret.value # <<>> \/ call.lhs = call.rhs)) =>
           LET R == ReplayResults(RelationsGet(relations, call.dim), {call.lhs}, ret.value)
           IN  /\ call.rhs \in R
               /\ NamesIdentify(RelationsGet(relations, call.dim)) => R = {call.rhs}

\* C1's case: a check that succeeded with a certificate of two steps or more
C1_Witness ==
    /\ Done("check")
    /\ ret.value.ok
    /\ NamesIdentify(rels)
    /\ Len(ret.value.steps) >= 2

(***************************************************************************)
(* C2 (as stated): for every registered relation (lhs, rhs, name),         *)
(* whatever else is registered and in whatever order, check(lhs, rhs,      *)
(* budget >= 1) returns (true, [(name, 0, forward)]).                      *)
(***************************************************************************)
C2_RelationSoundness ==
    (Done("check") /\ call.budget >= 1) =>
        \A k \in DOMAIN rels :
            (rels[k].lhs = call.diagram.left /\ rels[k].rhs = call.diagram.right) =>
                ret.value = Certificate(TRUE, << <<rels[k].name, 0, Forward>> >>)

(***************************************************************************)
(* C2 (amended): for every registered relation (lhs, rhs, name) and every  *)
(* budget >= 1, check(lhs, rhs, budget) returns (true, []) when lhs == rhs;*)
(* when lhs != rhs and lhs is non-empty it returns (true, [s]) where s is  *)
(* the first rewrite of lhs into rhs in registration order, forward before *)
(* backward, lowest offset first - so s is (name, 0, forward) unless a     *)
(* relation registered earlier already rewrites lhs into rhs; and when lhs *)
(* is empty and rhs is not it returns (false, []).                         *)
(***************************************************************************)
C2_RelationSoundnessInOrder ==
    (Done("check") /\ call.budget >= 1) =>
        \A k \in DOMAIN rels :
            (rels[k].lhs = call.diagram.left /\ rels[k].rhs = call.diagram.right) =>
                LET lhs == rels[k].lhs
                    rhs == rels[k].rhs
                IN  /\ lhs = rhs => ret.value = Certificate(TRUE, <<>>)
                    /\ (lhs # rhs /\ lhs # <<>>) =>
                           /\ ret.value = Certificate(TRUE, <<FirstRewrite(rels, lhs, rhs)>>)
                           /\ (\A c \in RewritesInto(rels, lhs, rhs) : c[1] >= k) =>
                                  ret.value.steps = << <<rels[k].name, 0, Forward>> >>
                    /\ (lhs # rhs /\ lhs = <<>>) => ret.value = Certificate(FALSE, <<>>)

\* C2's case: the second relation of the list queried on its own two sides
C2_Witness ==
    /\ Done("check")
    /\ call.budget >= 1
    /\ Len(rels) = 2
    /\ rels[2].lhs = call.diagram.left
    /\ rels[2].rhs = call.diagram.right
    /\ call.diagram.left # call.diagram.right
    /\ ret.value = Certificate(TRUE, << <<rels[2].name, 0, Forward>> >>)

(***************************************************************************)
(* C3: for every path p, every relation list and every budget >= 0,        *)
(* check(p, p, budget) returns (true, []) and expands no search state.     *)
(***************************************************************************)
C3_Reflexivity ==
    (Done("check") /\ call.diagram.left = call.diagram.right /\ call.budget >= 0) =>
        /\ ret = Returned(Certificate(TRUE, <<>>))
        /\ steps = 0
        /\ q = <<>>

\* C3's case: a non-empty path checked against itself with budget 0
C3_Witness ==
    /\ Done("check")
    /\ call.diagram.left = call.diagram.right
    /\ call.diagram.left # <<>>
    /\ call.budget = 0
    /\ rels # <<>>

(***************************************************************************)
(* C4: if check(a, b, N) returns true then check(a, b, M) returns true for *)
(* every M >= N, the relation list being the same.                         *)
(***************************************************************************)
C4_BudgetMonotonicity ==
    (Done("check") /\ ret.value.ok) =>
        \A M \in call.budget..(MaxBudget + 1) : Check(rels, call.diagram, M).value.ok

\* C4's case: a success that a budget one smaller does not reach
C4_Witness ==
    /\ Done("check")
    /\ ret.value.ok
    /\ call.budget >= 2
    /\ call.budget < MaxBudget
    /\ ~Check(rels, call.diagram, call.budget - 1).value.ok

(***************************************************************************)
(* C5: for all paths p != q and every relation list, check(p, q, 0)        *)
(* returns (false, []): with budget 0 only p == q gives true.              *)
(***************************************************************************)
C5_BudgetZero ==
    (Done("check") /\ call.budget = 0 /\ call.diagram.left # call.diagram.right) =>
        /\ ret = Returned(Certificate(FALSE, <<>>))
        /\ steps = 0

\* C5's case: budget 0 on a pair that budget 1 proves equal
C5_Witness ==
    /\ Done("check")
    /\ call.budget = 0
    /\ call.diagram.left # call.diagram.right
    /\ Check(rels, call.diagram, 1).value.ok

(***************************************************************************)
(* C6: a false verdict always carries an empty certificate, and a true     *)
(* verdict carries an empty certificate if and only if start == end.       *)
(***************************************************************************)
C6_VerdictCertificateConsistency ==
    Done("check") =>
        /\ ~ret.value.ok => ret.value.steps = <<>>
        /\ ret.value.ok => (ret.value.steps = <<>> <=> call.diagram.left = call.diagram.right)

\* C6's case: a true verdict for two different paths, found by the search
C6_Witness ==
    /\ Done("check")
    /\ ret.value.ok
    /\ call.diagram.left # call.diagram.right
    /\ steps >= 2

(***************************************************************************)
(* C7 (as stated): a relation with an empty lhs or rhs is rejected at      *)
(* registration, by the CommutativityChecker constructor and by            *)
(* add_relation, so no stored relation ever has an empty side.             *)
(***************************************************************************)
C7_NoEmptySideStored ==
    /\ \A k \in DOMAIN rels : rels[k].lhs # <<>> /\ rels[k].rhs # <<>>
    /\ \A d \in DOMAIN relations : \A k \in DOMAIN relations[d] :
           relations[d][k].lhs # <<>> /\ relations[d][k].rhs # <<>>

(***************************************************************************)
(* C8: add_generator and add_relation with a dimension k < 1 or k > n      *)
(* raise an error and leave every dimension's generator list and relation  *)
(* list unchanged.                                                         *)
(***************************************************************************)
C8_DimensionBounds ==
    [][ /\ (pc = "idle" /\ pc' = "done" /\ fn' = "add_generator"
              /\ (call'.g.dim < 1 \/ call'.g.dim > n)) =>
                (ret'.status = "raised" /\ generators' = generators /\ relations' = relations)
        /\ (pc = "idle" /\ pc' = "done" /\ fn' = "add_relation"
              /\ (call'.r.dim < 1 \/ call'.r.dim > n)) =>
                (ret'.status = "raised" /\ generators' = generators /\ relations' = relations)
      ]_vars

\* C8's case: a rejected add_generator on a presentation that holds something
C8_Witness ==
    /\ Done("add_generator")
    /\ call.g.dim > n
    /\ ret.status = "raised"
    /\ Total(relations) > 0
    /\ Total(generators) > 0

(***************************************************************************)
(* C9 (as stated): check and certificate called with an empty start path   *)
(* or an empty end path report a rejection instead of returning a verdict, *)
(* and dequeue nothing.                                                    *)
(***************************************************************************)
C9_EmptyPathRejected ==
    /\ (Done("check") /\ (call.diagram.left = <<>> \/ call.diagram.right = <<>>)) =>
           (ret.status = "raised" /\ steps = 0)
    /\ (Done("certificate") /\ (call.lhs = <<>> \/ call.rhs = <<>>)) =>
           (ret.status = "raised" /\ steps = 0)

\* the edges run between the shape's stated vertices
TriangleConnects(t) ==
    /\ t.edges[1].source = t.vertices[1] /\ t.edges[1].target = t.vertices[2]
    /\ t.edges[2].source = t.vertices[2] /\ t.edges[2].target = t.vertices[3]
    /\ t.edges[3].source = t.vertices[1] /\ t.edges[3].target = t.vertices[3]

SquareConnects(sq) ==
    /\ sq.edges[1].source = sq.vertices[1] /\ sq.edges[1].target = sq.vertices[2]
    /\ sq.edges[2].source = sq.vertices[2] /\ sq.edges[2].target = sq.vertices[4]
    /\ sq.edges[3].source = sq.vertices[1] /\ sq.edges[3].target = sq.vertices[3]
    /\ sq.edges[4].source = sq.vertices[3] /\ sq.edges[4].target = sq.vertices[4]

FailedProof(r) ==
    r.status = "returned" /\ ~r.value.is_valid /\ ~r.value.failure_reason.is_none

(***************************************************************************)
(* C10 (as stated): whenever the edges of the triangle or square do not    *)
(* connect its stated vertices, check_triangle_commutes and                *)
(* check_square_commutes return a proof with is_valid = False and a        *)
(* failure_reason set, and do not raise.                                   *)
(***************************************************************************)
C10_ShapeMismatchGivesFailedProof ==
    /\ (Done("check_triangle_commutes") /\ ~TriangleConnects(call.triangle)) => FailedProof(ret)
    /\ (Done("check_square_commutes") /\ ~SquareConnects(call.square)) => FailedProof(ret)

\* compose(f, g), defined (not None) and equal to h
ComposesTo(cat, f, g, h) == Compose(cat, f, g) # NoMorphism /\ Compose(cat, f, g) = h

\* f: A -> B, g: B -> C, h: A -> C, all three morphisms of the category
WellFormedTriangle(cat, t) ==
    /\ \A i \in 1..3 : t.edges[i] \in cat.morphisms
    /\ t.edges[1].target = t.edges[2].source
    /\ t.edges[3].source = t.edges[1].source
    /\ t.edges[3].target = t.edges[2].target

\* top: TL -> TR, right: TR -> BR, left: TL -> BL, bottom: BL -> BR, all in the category
WellFormedSquare(cat, sq) ==
    /\ \A i \in 1..4 : sq.edges[i] \in cat.morphisms
    /\ sq.edges[1].target = sq.edges[2].source
    /\ sq.edges[3].target = sq.edges[4].source
    /\ sq.edges[3].source = sq.edges[1].source
    /\ sq.edges[4].target = sq.edges[2].target

(***************************************************************************)
(* C11 (as stated): for f: A -> B, g: B -> C, h: A -> C, all in the        *)
(* category, check_triangle_commutes returns a proof whose is_valid is     *)
(* True exactly when compose(f, g) is defined and equals h; a proof that   *)
(* is not valid has a failure_reason, and failure_reason is None exactly   *)
(* when is_valid is True.                                                  *)
(***************************************************************************)
C11_TriangleValidIffComposesToH ==
    (Done("check_triangle_commutes") /\ WellFormedTriangle(category, call.triangle)) =>
        /\ ret.status = "returned"
        /\ ret.value.is_valid <=>
               ComposesTo(category, call.triangle.edges[1], call.triangle.edges[2],
                          call.triangle.edges[3])
        /\ ret.value.failure_reason.is_none <=> ret.value.is_valid
        /\ ~ret.value.is_valid => ret.value.failure_reason.text # ""

(***************************************************************************)
(* C12 (as stated): for a well-formed square whose four edges are in the   *)
(* category, check_square_commutes raises nothing and returns a proof      *)
(* whose is_valid is True exactly when compose(top, right) and             *)
(* compose(left, bottom) are both defined and equal; otherwise the proof   *)
(* is not valid and has a failure_reason.                                  *)
(***************************************************************************)
C12_SquareValidIffCompositesAgree ==
    (Done("check_square_commutes") /\ WellFormedSquare(category, call.square)) =>
        /\ ret.status = "returned"
        /\ ret.value.is_valid <=>
               /\ Compose(category, call.square.edges[1], call.square.edges[2]) # NoMorphism
               /\ Compose(category, call.square.edges[3], call.square.edges[4]) # NoMorphism
               /\ Compose(category, call.square.edges[1], call.square.edges[2])
                      = Compose(category, call.square.edges[3], call.square.edges[4])
        /\ ~ret.value.is_valid => ~ret.value.failure_reason.is_none

\* pat occurs in path at offset i
OccursAt(pat, path, i) ==
    i + Len(pat) <= Len(path) /\ SubSeq(path, i + 1, i + Len(pat)) = pat

\* the offsets i at which from = u + lhs + v and to = u + rhs + v with len(u) = i
Contexts(r, from, to) ==
    {i \in 0..Len(from) :
        /\ OccursAt(r.lhs, from, i)
        /\ to = SubSeq(from, 1, i) \o r.rhs \o SubSeq(from, i + Len(r.lhs) + 1, Len(from))}

(***************************************************************************)
(* C13 (as stated): for a checker whose only relation is (lhs, rhs, name)  *)
(* with lhs != rhs, every prefix u, suffix v and budget >= 1,              *)
(* check(u + lhs + v, u + rhs + v, budget) returns true with a one-step    *)
(* certificate; when lhs occurs in u + lhs + v only at offset len(u), the  *)
(* step is (name, len(u), forward).                                        *)
(***************************************************************************)
C13_RewriteInContext ==
    (Done("check") /\ call.budget >= 1 /\ Len(rels) = 1 /\ rels[1].lhs # rels[1].rhs) =>
        \A i \in Contexts(rels[1], call.diagram.left, call.diagram.right) :
            /\ ret.value.ok
            /\ Len(ret.value.steps) = 1
            /\ (\A j \in 0..Len(call.diagram.left) :
                    OccursAt(rels[1].lhs, call.diagram.left, j) => j = i)
                  => ret.value.steps = << <<rels[1].name, i, Forward>> >>

\* the paths one rewrite step away from p: a non-empty side of a relation of
\* rs, found at some offset of p, replaced by the other side
Successors(rs, p) ==
    UNION {ApplyAt(rs[c[1]], c[2], c[3], p) :
              c \in {d \in (DOMAIN rs) \X {Forward, Backward} \X (0..Len(p)) :
                        (IF d[2] = Forward THEN rs[d[1]].lhs ELSE rs[d[1]].rhs) # <<>>}}

\* the paths at most k rewrite steps away from a path of S
RECURSIVE ReachWithin(_, _, _)
ReachWithin(rs, S, k) ==
    IF k <= 0 THEN S
    ELSE ReachWithin(rs, S \cup UNION {Successors(rs, p) : p \in S}, k - 1)

\* every path any number of rewrite steps away from a path of S
RECURSIVE Reachable(_, _)
Reachable(rs, S) ==
    LET T == S \cup UNION {Successors(rs, p) : p \in S}
    IN  IF T = S THEN S ELSE Reachable(rs, T)

(***************************************************************************)
(* C14: certificate(dim, lhs, rhs, budget) always returns a list.  The     *)
(* list is empty when lhs == rhs.  A non-empty list means lhs != rhs and   *)
(* is a rewrite of lhs into rhs by dimension dim's relations, of at most   *)
(* budget steps.  For lhs != rhs the list is empty when rhs is not within  *)
(* budget rewrite steps of lhs, and non-empty when rhs is one step away    *)
(* and budget >= 1, or rhs is reachable and the budget covers every path   *)
(* reachable from lhs.  With swap: (a,b) <-> (b,a) at dimension 1,         *)
(* certificate(1, (a,b,a), (b,a,a), 64) is non-empty.                      *)
(***************************************************************************)
C14_NCatCertificate ==
    Done("certificate") =>
        LET R == RelationsGet(relations, call.dim)
            all == Reachable(R, {call.lhs})
        IN  /\ ret.status = "returned"
            /\ call.lhs = call.rhs => ret.value = <<>>
            /\ ret.value # <<>> =>
                   /\ call.lhs # call.rhs
                   /\ call.rhs \in ReplayResults(R, {call.lhs}, ret.value)
                   /\ Len(ret.value) <= call.budget
            /\ (call.lhs # call.rhs /\ call.rhs \notin ReachWithin(R, {call.lhs}, call.budget))
                   => ret.value = <<>>
            /\ (call.lhs # call.rhs /\ call.budget >= 1 /\ call.rhs \in Successors(R, call.lhs))
                   => ret.value # <<>>
            /\ (call.lhs # call.rhs /\ call.rhs \in all /\ Cardinality(all) <= call.budget)
                   => ret.value # <<>>
            /\ CertificateOf([k \in {1} |-> <<NRelation(1, <<0, 1>>, <<1, 0>>, "swap")>>],
                             1, <<0, 1, 0>>, <<1, 0, 0>>, 64).value # <<>>

\* C14's case: a certificate of two steps, found with budget to spare
C14_Witness ==
    /\ Done("certificate")
    /\ Len(ret.value) >= 2
    /\ call.budget > Len(ret.value)

\* every combination of objects A, B, C and stored f: A -> B, g: B -> C, h: A -> C
AllTriangles(cat) ==
    UNION {{[vertices |-> v, edges |-> <<f, g, h>>,
             name |-> "triangle_" \o f.name \o "_" \o g.name \o "_" \o h.name] :
                f \in Between(cat, v[1], v[2]), g \in Between(cat, v[2], v[3]),
                h \in Between(cat, v[1], v[3])} :
           v \in cat.objects \X cat.objects \X cat.objects}

\* every combination of objects TL, TR, BL, BR and stored top, right, left, bottom
AllSquares(cat) ==
    UNION {{[vertices |-> v, edges |-> <<top, right, left, bottom>>,
             name |-> "square_" \o top.name \o "_" \o right.name \o "_" \o left.name
                          \o "_" \o bottom.name] :
                top \in Between(cat, v[1], v[2]), right \in Between(cat, v[2], v[4]),
                left \in Between(cat, v[1], v[3]), bottom \in Between(cat, v[3], v[4])} :
           v \in cat.objects \X cat.objects \X cat.objects \X cat.objects}

ReportsValid(c) == c.ret.status = "returned" /\ c.ret.value.is_valid

\* a returned list holds exactly one entry for each shape of `shapes`, each with a valid proof
ExactlyTheShapes(entries, shapes) ==
    /\ {entries[i].shape : i \in DOMAIN entries} = shapes
    /\ \A i, j \in DOMAIN entries : entries[i].shape = entries[j].shape => i = j
    /\ \A i \in DOMAIN entries : entries[i].proof.is_valid

(***************************************************************************)
(* C15 (as stated): find_commutative_triangles returns a list holding      *)
(* exactly one (triangle, proof) entry for every combination of objects    *)
(* A, B, C and stored morphisms f: A -> B, g: B -> C, h: A -> C for which  *)
(* check_triangle_commutes reports is_valid = True, and nothing else;      *)
(* find_commutative_squares does the same for squares; every returned      *)
(* proof is valid.                                                         *)
(***************************************************************************)
C15_FindReturnsExactlyTheCommutingShapes ==
    /\ Done("find_commutative_triangles") =>
           /\ ret.status = "returned"
           /\ ExactlyTheShapes(ret.value,
                  {t \in AllTriangles(category) :
                      ReportsValid(CheckTriangleCommutes(category, commutativity_cache, t))})
    /\ Done("find_commutative_squares") =>
           /\ ret.status = "returned"
           /\ ExactlyTheShapes(ret.value,
                  {sq \in AllSquares(category) :
                      ReportsValid(CheckSquareCommutes(category, commutativity_cache, sq))})

\* a call of `name` starts and ends in this step
Calls(name) == pc = "idle" /\ pc' = "done" /\ fn' = name

(***************************************************************************)
(* C17: set_composition(f, g, h) raises and leaves the category unchanged  *)
(* when f.target != g.source or h's endpoints are not (f.source,           *)
(* g.target); otherwise it succeeds, compose(f, g) is h from then on, and  *)
(* no other pair's entry changes.  Nothing but set_composition changes the *)
(* table, so the entry stays until set_composition overwrites it.          *)
(* compose(f, g) returns the pair's entry when there is one, with source   *)
(* f.source and target g.target, and None when f.target != g.source.       *)
(***************************************************************************)
C17_CompositionRoundTrip ==
    [][ /\ Calls("set_composition") =>
              LET f == call'.f
                  g == call'.g
                  h == call'.h
              IN  IF f.target = g.source /\ h.source = f.source /\ h.target = g.target
                  THEN /\ ret'.status = "returned"
                       /\ Compose(category', f, g) = h
                       /\ DOMAIN category'.composition = DOMAIN category.composition \cup {<<g, f>>}
                       /\ \A key \in DOMAIN category.composition \ {<<g, f>>} :
                              category'.composition[key] = category.composition[key]
                  ELSE /\ ret'.status = "raised"
                       /\ category' = category
        /\ ~Calls("set_composition") => category'.composition = category.composition
        /\ Calls("compose") =>
              LET f == call'.f
                  g == call'.g
              IN  /\ ret'.status = "returned"
                  /\ f.target # g.source => ret'.value = NoMorphism
                  /\ <<g, f>> \in DOMAIN category.composition =>
                         /\ ret'.value = category.composition[<<g, f>>]
                         /\ ret'.value.source = f.source
                         /\ ret'.value.target = g.target
      ]_vars

\* C17's case: compose answers from a table entry that was set to k
C17_Witness ==
    /\ Done("compose")
    /\ <<call.g, call.f>> \in DOMAIN category.composition
    /\ ret.value = category.composition[<<call.g, call.f>>]
    /\ ret.value.name = "k"

\* list `old` is an initial part of list `new`
IsPrefix(old, new) == Len(old) <= Len(new) /\ SubSeq(new, 1, Len(old)) = old

\* every list of the dict survives, as an initial part of the list now at its dimension
OnlyExtended(old, new) ==
    \A dim \in DOMAIN old : dim \in DOMAIN new /\ IsPrefix(old[dim], new[dim])

\* the item went to the end of its dimension's list, nothing else changed, and
\* the call returned the item's (0-based) index
AppendedTo(old, new, item, result) ==
    /\ result.status = "returned"
    /\ result.value = IntResult(Len(old[item.dim]))
    /\ DOMAIN new = DOMAIN old
    /\ new[item.dim] = Append(old[item.dim], item)
    /\ new[item.dim][result.value[1] + 1] = item
    /\ \A dim \in DOMAIN old \ {item.dim} : new[dim] = old[dim]

(***************************************************************************)
(* C16: on a FiniteWeakNCategory, an accepted add_generator / add_relation *)
(* (dimension in 1..n) appends its item to the end of its dimension's list *)
(* and returns the item's index there; a rejected one changes nothing; and *)
(* no step of any operation removes, reorders or replaces an item: every   *)
(* list only ever grows at its end, so each list is the accepted items of  *)
(* its dimension in call order and an index always denotes the same item.  *)
(***************************************************************************)
C16_AppendOnlyRegistry ==
    [][ /\ Calls("add_generator") =>
              /\ relations' = relations
              /\ IF 1 <= call'.g.dim /\ call'.g.dim <= n
                 THEN AppendedTo(generators, generators', call'.g, ret')
                 ELSE ret'.status = "raised" /\ generators' = generators
        /\ Calls("add_relation") =>
              /\ generators' = generators
              /\ IF 1 <= call'.r.dim /\ call'.r.dim <= n
                 THEN AppendedTo(relations, relations', call'.r, ret')
                 ELSE ret'.status = "raised" /\ relations' = relations
        /\ ~(Calls("add_generator") \/ Calls("add_relation")) =>
              (pc # "new" => generators' = generators /\ relations' = relations)
        /\ OnlyExtended(generators, generators')
        /\ OnlyExtended(relations, relations')
      ]_vars

\* C16's case: add_relation returned index 1, the second item of its dimension
C16_Witness ==
    /\ Done("add_relation")
    /\ ret.status = "returned"
    /\ ret.value = IntResult(1)
    /\ relations[call.r.dim][2] = call.r
    /\ relations[call.r.dim][1] # call.r

(***************************************************************************)
(* C18: whenever check returns (true, cert) for start != end, end is not   *)
(* within fewer than len(cert) rewrite steps of start, a rewrite step      *)
(* being the replacement of one occurrence of a non-empty side of a        *)
(* registered relation by its other side, at any offset.                   *)
(***************************************************************************)
C18_ShortestCertificate ==
    (Done("check") /\ ret.value.ok /\ call.diagram.left # call.diagram.right) =>
        call.diagram.right \notin ReachWithin(rels, {call.diagram.left}, Len(ret.value.steps) - 1)

\* C18's case: a certificate of two steps or more where the start path has
\* several rewrites, so that more than one route was open
C18_Witness ==
    /\ Done("check")
    /\ ret.value.ok
    /\ Len(ret.value.steps) >= 2
    /\ Cardinality(Successors(rels, call.diagram.left)) >= 2

\* max(budget, 0)
Dequeues(budget) == IF budget > 0 THEN budget ELSE 0

(***************************************************************************)
(* C19: a call of check or certificate has dequeued at most max(budget, 0) *)
(* search states at any moment, each iteration of the loop is one dequeue  *)
(* taken while the count is below the budget, whatever number of           *)
(* successors it generates, and every call that enters the loop returns.   *)
(***************************************************************************)
C19_TerminatesWithinBudget ==
    /\ [](fn \in {"check", "certificate"} => steps <= Dequeues(call.budget))
    /\ [][pc = "loop" =>
             \/ steps' = steps + 1 /\ steps < call.budget /\ q # <<>> /\ Tail(q) = SubSeq(q', 1, Len(q) - 1)
             \/ steps' = steps /\ pc' = "done"]_vars
    /\ (pc = "loop") ~> (pc = "done")

\* C19's case: a search that stopped on its budget after generating more
\* paths than the budget, with entries still queued
C19_Witness ==
    /\ Done("check")
    /\ ~ret.value.ok
    /\ call.budget >= 1
    /\ steps = call.budget
    /\ q # <<>>
    /\ Cardinality(seen) > call.budget + 1

\* dimension dim's relations as the generic engine takes them: the same
\* (name, lhs, rhs), in the same order
SameRelations(dict, dim) ==
    LET rs == RelationsGet(dict, dim)
    IN  [k \in 1..Len(rs) |-> Relation(rs[k].lhs, rs[k].rhs, rs[k].name)]

(***************************************************************************)
(* C20: FiniteWeakNCategory.certificate(dim, l, r, b) returns exactly the  *)
(* step list that CommutativityChecker.check(Diagram(l, r), b) puts in its *)
(* certificate when the checker holds dimension dim's relations (name,     *)
(* lhs, rhs) in the same order; and the list is non-empty or l == r        *)
(* exactly when check's verdict is true.                                   *)
(***************************************************************************)
C20_SameSearchAsChecker ==
    Done("certificate") =>
        LET generic == Check(SameRelations(relations, call.dim),
                             Diagram(call.lhs, call.rhs), call.budget)
        IN  /\ ret.status = "returned"
            /\ generic.status = "returned"
            /\ ret.value = generic.value.steps
            /\ generic.value.ok <=> (ret.value # <<>> \/ call.lhs = call.rhs)

\* C20's case: two different relations registered at the dimension, and a
\* certificate of two steps
C20_Witness ==
    /\ Done("certificate")
    /\ Len(RelationsGet(relations, call.dim)) = 2
    /\ relations[call.dim][1].name # relations[call.dim][2].name
    /\ Len(ret.value) >= 2
    /\ Check(SameRelations(relations, call.dim), Diagram(call.lhs, call.rhs), call.budget).value.ok

\* the relations dict with every list but dimension dim's emptied
OnlyDimension(dict, dim) == [k \in DOMAIN dict |-> IF k = dim THEN dict[k] ELSE <<>>]

\* the relations registered at the other dimensions, in dimension order
ElsewhereThan(dict, dim) ==
    LET RECURSIVE Every(_)
        Every(ks) == IF ks = {} THEN <<>>
                     ELSE LET k == CHOOSE x \in ks : \A y \in ks : x <= y
                          IN  dict[k] \o Every(ks \ {k})
    IN  Every(DOMAIN dict \ {dim})

(***************************************************************************)
(* C21: certificate(dim, lhs, rhs, budget) returns what it returns on a    *)
(* category that holds dimension dim's relations only: the relations       *)
(* registered at other dimensions and the generators registered at any     *)
(* dimension before the call do not change the returned list.              *)
(***************************************************************************)
C21_DimensionScoping ==
    Done("certificate") =>
        ret = CertificateOf(OnlyDimension(relations, call.dim), call.dim,
                            call.lhs, call.rhs, call.budget)

\* C21's case: a generator is registered, and another dimension holds a
\* relation that would rewrite lhs into rhs, yet the certificate is empty
C21_Witness ==
    /\ Done("certificate")
    /\ Total(generators) >= 1
    /\ call.dim \in DOMAIN relations
    /\ call.lhs # call.rhs
    /\ call.budget >= 1
    /\ call.rhs \in Successors(ElsewhereThan(relations, call.dim), call.lhs)
    /\ ret.value = <<>>

(***************************************************************************)
(* C30: certificate(dim, lhs, rhs, budget) with dim < 1 or dim > n raises  *)
(* nothing and returns the empty list, for lhs == rhs and for lhs != rhs,  *)
(* and no step of a certificate call changes generators or relations: the  *)
(* dimension is checked when an item is registered, not when the category  *)
(* is queried.                                                             *)
(***************************************************************************)
C30_OutOfRangeQueryIsSilent ==
    /\ []((Done("certificate") /\ ~DimInRange(call.dim, n)) => ret = Returned(<<>>))
    /\ []((fn = "certificate" /\ ~DimInRange(call.dim, n)) => ret.status # "raised")
    /\ [][fn' = "certificate" => generators' = generators /\ relations' = relations]_vars
    /\ [][(Calls("add_generator") /\ ~DimInRange(call'.g.dim, n)) => ret'.status = "raised"]_vars
    /\ [][(Calls("add_relation") /\ ~DimInRange(call'.r.dim, n)) => ret'.status = "raised"]_vars

\* C30's case: a query above n, for two paths that a registered relation
\* connects in one step
C30_Witness ==
    /\ Done("certificate")
    /\ call.dim > n
    /\ n >= 1
    /\ call.lhs # call.rhs
    /\ call.budget >= 1
    /\ call.rhs \in Successors(ElsewhereThan(relations, call.dim), call.lhs)
    /\ ret = Returned(<<>>)

\* the side of r that a step of the direction looks for
PatternOf(r, direction) == IF direction = Forward THEN r.lhs ELSE r.rhs

\* the occurrences of non-empty patterns in p: <<relation index, direction, offset>>
Matches(rs, p) ==
    {c \in (DOMAIN rs) \X {Forward, Backward} \X (0..Len(p)) :
        PatternOf(rs[c[1]], c[2]) # <<>> /\ OccursAt(PatternOf(rs[c[1]], c[2]), p, c[3])}

\* subs, the substitutions generated for p, are the replacements at the
\* occurrences of the non-empty sides, one each, and nothing else
OnlyNonEmptyPatterns(rs, subs, p) ==
    /\ Len(subs) = Cardinality(Matches(rs, p))
    /\ \A c \in Matches(rs, p) :
           \E j \in DOMAIN subs :
               /\ subs[j].info = <<rs[c[1]].name, c[3], c[2]>>
               /\ subs[j].newp \in ApplyAt(rs[c[1]], c[2], c[3], p)

\* every step of cert names a relation whose side for the step's direction is
\* not empty; when names identify relations, that is the step's relation
StepsMatchNonEmptySides(rs, cert) ==
    \A j \in DOMAIN cert :
        /\ \E k \in DOMAIN rs : rs[k].name = cert[j][1] /\ PatternOf(rs[k], cert[j][3]) # <<>>
        /\ NamesIdentify(rs) =>
               \A k \in DOMAIN rs : rs[k].name = cert[j][1] => PatternOf(rs[k], cert[j][3]) # <<>>

(***************************************************************************)
(* C29: the substitutions generated for a path are exactly the             *)
(* replacements of the occurrences of the relations' non-empty sides: an   *)
(* empty side is never a pattern (nothing is inserted at an empty match),  *)
(* while the non-empty side of the same relation is still matched and      *)
(* replaced by the empty one.  So every step of a queued or returned       *)
(* certificate has a direction whose pattern is non-empty.                 *)
(***************************************************************************)
C29_EmptyPatternsNeverMatch ==
    /\ fn = "check" =>
           /\ \A p \in seen : OnlyNonEmptyPatterns(rels, Subs(rels, p), p)
           /\ \A j \in DOMAIN q : StepsMatchNonEmptySides(rels, q[j].cert)
           /\ pc = "done" => StepsMatchNonEmptySides(rels, ret.value.steps)
    /\ fn = "certificate" =>
           LET R == RelationsGet(relations, call.dim)
           IN  /\ \A p \in seen : OnlyNonEmptyPatterns(R, Substitutions(relations, call.dim, p), p)
               /\ \A j \in DOMAIN q : StepsMatchNonEmptySides(R, q[j].cert)
               /\ pc = "done" => StepsMatchNonEmptySides(R, ret.value)

\* C29's case: the only relation has an empty left side, and the certificate
\* found is the deletion of its right side; nothing was inserted on the way
C29_Witness ==
    /\ Done("check")
    /\ Len(rels) = 1
    /\ rels[1].lhs = <<>>
    /\ rels[1].rhs # <<>>
    /\ ret.value.ok
    /\ Len(ret.value.steps) >= 2
    /\ \A j \in DOMAIN ret.value.steps : ret.value.steps[j][3] = Backward

\* S holds every path one rewrite step away from a path of S
Closed(rs, S) == \A p \in S : Successors(rs, p) \subseteq S

\* the paths reachable from start are at most budget: if so, they are all
\* found within budget rounds of one-step rewrites
AtMostBudgetReachable(rs, start, budget) ==
    LET S == ReachWithin(rs, {start}, budget)
    IN  Cardinality(S) <= budget /\ Closed(rs, S)

\* a search from start for end that returned the verdict ok, leaving the
\* queue and the seen-set as given
Decides(rs, start, end, budget, ok, queue, visited) ==
    /\ AtMostBudgetReachable(rs, start, budget) =>
           (ok <=> end \in ReachWithin(rs, {start}, budget))
    /\ (~ok /\ queue = <<>>) =>
           /\ start \in visited
           /\ Closed(rs, visited)
           /\ end \notin visited

(***************************************************************************)
(* C27: when the paths reachable from start by rewrite steps are at most   *)
(* budget, check (and certificate) answers true exactly when end is one of *)
(* them; and whenever the answer is false with the queue emptied, end is   *)
(* unreachable: the seen-set then holds start, is closed under rewrite     *)
(* steps and does not hold end.  A rewrite step replaces an occurrence of  *)
(* a non-empty side of a relation by the other side.                       *)
(***************************************************************************)
C27_ExhaustiveSearchDecides ==
    /\ Done("check") =>
           Decides(rels, call.diagram.left, call.diagram.right, call.budget,
                   ret.value.ok, q, seen \cup {call.diagram.left})
    /\ Done("certificate") =>
           Decides(RelationsGet(relations, call.dim), call.lhs, call.rhs, call.budget,
                   ret.value # <<>> \/ call.lhs = call.rhs, q, seen \cup {call.lhs})

\* C27's case: a false verdict with budget to spare, after the queue emptied
\* on a start path with more than one reachable path; no relation has an
\* empty side
C27_Witness ==
    /\ Done("check")
    /\ ~ret.value.ok
    /\ q = <<>>
    /\ steps < call.budget
    /\ steps >= 2
    /\ \A k \in DOMAIN rels : rels[k].lhs # <<>> /\ rels[k].rhs # <<>>
    /\ AtMostBudgetReachable(rels, call.diagram.left, call.budget)

\* the relations, start and end of the search in progress or just ended
SearchRelations == IF fn = "check" THEN rels ELSE RelationsGet(relations, call.dim)
SearchStart == IF fn = "check" THEN call.diagram.left ELSE call.lhs
SearchEnd == IF fn = "check" THEN call.diagram.right ELSE call.rhs
Searching == fn \in {"check", "certificate"} /\ SearchStart # SearchEnd

\* the queue holds seen paths, each once, and never the end path; start and
\* every queued path are seen, the end path is not
QueueWithinSeen ==
    /\ SearchStart \in seen
    /\ SearchEnd \notin seen
    /\ \A j \in DOMAIN q : q[j].path \in seen
    /\ \A i, j \in DOMAIN q : q[i].path = q[j].path => i = j

\* one iteration of the loop: the entries it enqueues are new to the
\* seen-set, differ from each other and from the end path, and become seen
EnqueuesOnlyUnseen ==
    (pc = "loop" /\ steps' = steps + 1) =>
        LET new == SubSeq(q', Len(q), Len(q'))
        IN  /\ SubSeq(q', 1, Len(q) - 1) = Tail(q)
            /\ \A j \in DOMAIN new : new[j].path \notin seen /\ new[j].path # SearchEnd
            /\ \A i, j \in DOMAIN new : new[i].path = new[j].path => i = j
            /\ seen' = seen \cup {new[j].path : j \in DOMAIN new}

(***************************************************************************)
(* C28 (as stated): in every state of the search inside check /            *)
(* certificate, every queued entry (path, cert) satisfies                  *)
(* replay(start, cert) = path and path is in the seen-set, each distinct   *)
(* path is enqueued at most once during the call (start only initially)    *)
(* and the end path is never enqueued.                                     *)
(***************************************************************************)
C28_SearchStateInvariant ==
    /\ [](Searching =>
             /\ QueueWithinSeen
             /\ \A j \in DOMAIN q :
                    ReplayResults(SearchRelations, {SearchStart}, q[j].cert) = {q[j].path})
    /\ [][EnqueuesOnlyUnseen]_vars

(***************************************************************************)
(* C28 (amended): in every state of the search inside check /              *)
(* certificate, every queued entry (path, cert) is such that replaying     *)
(* cert from start, taking for each step a relation that bears the step's  *)
(* name, can yield path, and yields exactly path whenever no two different *)
(* registered relations share a name; path is in the seen-set, each        *)
(* distinct path is enqueued at most once during the call (start only      *)
(* initially) and the end path is never enqueued.                          *)
(***************************************************************************)
C28_SearchStateInvariantByName ==
    /\ [](Searching =>
             /\ QueueWithinSeen
             /\ \A j \in DOMAIN q :
                    LET R == ReplayResults(SearchRelations, {SearchStart}, q[j].cert)
                    IN  /\ q[j].path \in R
                        /\ NamesIdentify(SearchRelations) => R = {q[j].path})
    /\ [][EnqueuesOnlyUnseen]_vars

\* C28's case: after two iterations two entries or more are queued, one of
\* them with a two-step certificate, and the start path was generated again
\* by a rewrite of one of its successors
C28_Witness ==
    /\ fn = "check"
    /\ pc = "loop"
    /\ steps >= 2
    /\ Len(q) >= 2
    /\ NamesIdentify(rels)
    /\ \E j \in DOMAIN q : Len(q[j].cert) >= 2
    /\ \E p \in Successors(rels, call.diagram.left) :
           p # call.diagram.left /\ call.diagram.left \in Successors(rels, p)

\* the chains m1..mk of category morphisms with m1.source = source and each
\* mi.target = m(i+1).source, for k = len
RECURSIVE ChainsOfLength(_, _, _)
ChainsOfLength(cat, source, len) ==
    IF len = 0 THEN {<<>>}
    ELSE {c \in {Append(c0, m) : c0 \in ChainsOfLength(cat, source, len - 1), m \in cat.morphisms} :
             c[len].source = (IF len = 1 THEN source ELSE c[len - 1].target)}

\* those of 1 to max_length morphisms that end at target
Chains(cat, source, target, max_length) ==
    UNION {{c \in ChainsOfLength(cat, source, k) : c[k].target = target} : k \in 1..max_length}

\* what a fresh verifier on the category returns
FreshPaths(cat, source, target, max_length) ==
    FindAllPaths(cat, <<>>, source, target, max_length).ret

(***************************************************************************)
(* C24 (as stated): on a category that is no longer modified, after any    *)
(* sequence of check_paths_commute calls on one verifier,                  *)
(* check_paths_commute(p, q) returns a value, check_paths_commute(q, p)    *)
(* returns the same one, and it is the value the uncached computation      *)
(* (use_cache=False) returns for the pair.                                 *)
(***************************************************************************)
C24_CommutativityCacheTransparent ==
    Done("check_paths_commute") =>
        LET uncached == CheckPathsCommute(category, commutativity_cache, call.path1, call.path2, FALSE).ret
            swapped == CheckPathsCommute(category, commutativity_cache, call.path2, call.path1,
                                         call.use_cache).ret
        IN  /\ ret.status = "returned"
            /\ ret = uncached
            /\ swapped = ret

(***************************************************************************)
(* C25 (as stated): on a category that is no longer modified, every        *)
(* find_all_paths(source, target, max_length) call of a session returns    *)
(* the list a fresh verifier returns for the three arguments, whatever     *)
(* calls were made before it.                                              *)
(***************************************************************************)
C25_PathCacheTransparent ==
    Done("find_all_paths") =>
        ret = FreshPaths(category, call.source, call.target, call.max_length)

(***************************************************************************)
(* C26 (as stated): what a fresh verifier returns for                      *)
(* find_all_paths(source, target, max_length) is exactly the chains of     *)
(* category morphisms m1..mk from source to target with                    *)
(* 1 <= k <= max_length, each once, also when source == target.            *)
(***************************************************************************)
C26_FindAllPathsComplete ==
    Done("find_all_paths") =>
        LET fresh == FreshPaths(category, call.source, call.target, call.max_length)
        IN  /\ fresh.status = "returned"
            /\ {fresh.value[i].morphisms : i \in DOMAIN fresh.value}
                   = Chains(category, call.source, call.target, call.max_length)
            /\ \A i, j \in DOMAIN fresh.value :
                   fresh.value[i].morphisms = fresh.value[j].morphisms => i = j

(***************************************************************************)
(* Concurrent calls on a rewrite engine.                                   *)
(***************************************************************************)
\* what the call of a frame returns when it is the only call running
Alone(frame) ==
    IF frame.fn = "check"
    THEN Check(rels, frame.call.diagram, frame.call.budget)
    ELSE CertificateOf(relations, frame.call.dim, frame.call.lhs, frame.call.rhs,
                       frame.call.budget)

ThreadStep == threads' # threads

\* C22: whatever the interleaving of the threads' check / certificate calls
\* on one object (nothing being registered meanwhile), a call that has
\* returned has returned the verdict and certificate it returns when run
\* alone, and no step of a call changes the registered relations, the
\* generators or the arguments of any call in progress.
C22_NoSharedState ==
    /\ [](\A t \in Threads : threads[t].pc = "done" => threads[t].ret = Alone(threads[t]))
    /\ [][ThreadStep =>
            /\ rels' = rels
            /\ relations' = relations
            /\ generators' = generators
            /\ \A t \in Threads :
                   threads[t].pc # "unstarted" => threads'[t].call = threads[t].call]_vars

\* two different certificate calls overlap on an n-category that has a
\* generator: one has returned a certificate while the other is inside its
\* loop, and both have visited a common path
C22_Witness ==
    /\ obj = "ncat"
    /\ Total(generators) > 0
    /\ threads[1].pc = "done"
    /\ Len(threads[1].ret.value) >= 1
    /\ threads[2].pc = "loop"
    /\ threads[2].steps >= 1
    /\ threads[1].call # threads[2].call
    /\ threads[1].seen \cap threads[2].seen # {}

(***************************************************************************)
(* Concurrent calls on a verifier.                                         *)
(***************************************************************************)
\* find_all_paths call c1 and then c2, one after the other, on the empty cache
InSequence(c1, c2) ==
    LET r1 == FindAllPaths(category, <<>>, c1.source, c1.target, c1.max_length)
        r2 == FindAllPaths(category, r1.cache, c2.source, c2.target, c2.max_length)
    IN  [first |-> r1.ret, second |-> r2.ret, cache |-> r2.cache]

\* threads t and u have both returned from find_all_paths, and theirs are
\* the only calls made
BothReturned(t, u) ==
    /\ t # u
    /\ \A w \in {t, u} : threads[w].fn = "find_all_paths" /\ threads[w].pc = "done"
    /\ \A w \in Threads \ {t, u} : threads[w].pc = "unstarted"

\* the two returned lists are those of one of the two sequential executions
ResultsSerialisable(t, u) ==
    \/ /\ threads[t].ret = InSequence(threads[t].call, threads[u].call).first
       /\ threads[u].ret = InSequence(threads[t].call, threads[u].call).second
    \/ /\ threads[u].ret = InSequence(threads[u].call, threads[t].call).first
       /\ threads[t].ret = InSequence(threads[u].call, threads[t].call).second

\* the list a thread's call computes when it misses the cache
OwnPaths(t) ==
    ComputePaths(category, threads[t].call.source, threads[t].call.target,
                 threads[t].call.max_length)

\* both calls missed the cache: each returned the list it computed itself
LostUpdate(t, u) ==
    /\ threads[t].call.source = threads[u].call.source
    /\ threads[t].call.target = threads[u].call.target
    /\ OwnPaths(t) # OwnPaths(u)
    /\ \A w \in {t, u} : threads[w].ret = Returned(OwnPaths(w))

\* C23: two find_all_paths calls made by two threads on one verifier can
\* return results that no sequential execution of the two calls returns;
\* this happens exactly when both ask for the same (source, target) with
\* max_length values that give different lists and both miss the cache, each
\* returning its own list.
C23_CachesNotThreadSafe ==
    \A t \in Threads, u \in Threads :
        BothReturned(t, u) => (~ResultsSerialisable(t, u) <=> LostUpdate(t, u))

\* two threads have returned different lists for the same (source, target):
\* the results of no sequential execution
C23_Witness ==
    \E t \in Threads, u \in Threads :
        /\ BothReturned(t, u)
        /\ threads[t].call.source = threads[u].call.source
        /\ threads[t].call.target = threads[u].call.target
        /\ threads[t].ret # threads[u].ret
        /\ ~ResultsSerialisable(t, u)
====
